---- MODULE Spec2Model ----
(***************************************************************************)
(* State-machine model of the secure document custody and access-control   *)
(* engine of src/server (index.js, db.js, utils.js, the crypto helpers and  *)
(* the ACL table).  One action per request handler or background callback; *)
(* every handler runs to completion (all file access is synchronous), the  *)
(* only deferred step being the otp_sent callback started by signup.       *)
(***************************************************************************)
EXTENDS Integers, Sequences, FiniteSets, TLC

VARIABLES
    disk,             \* data.json as last written by writeDB
    pending,          \* deferred otp_sent callbacks, each holding its signup's DB object
    session,          \* req.session.user per session id (Null: not authenticated)
    privateKeyStore,  \* the in-memory Map sessionId -> {privateKeyPem, expiresAt}
    now,              \* Date.now(), in minutes
    nextId,           \* source of fresh values (uuid, key pairs, salts, AES keys)
    otpHist,          \* per email: results already returned for its current challenge
                      \* and for its password attempts
    resp,             \* the last response sent, with the request it answers
    portal            \* src/research-portal: its Decision collection and its clock

vars == <<disk, pending, session, privateKeyStore, now, nextId, otpHist, resp, portal>>

-----------------------------------------------------------------------------
(* Program constants (minutes for durations).                              *)

OtpTtl == 5
MaxOtpAttempts == 5
MaxFailedLogins == 5
LockoutPeriod == 15
KeyTtl == 120
MinPasswordLength == 12

(* Bounds of the model.                                                    *)

MaxOtpLogs == 8
MaxOtpTime == 6
MaxLogs == 3
MaxTime == 6
MaxPaperLogs == 3

-----------------------------------------------------------------------------
(* Values.                                                                 *)

Null == [kind |-> "null"]

EmptyMap == [k \in {} |-> Null]

Put(m, k, v) == [x \in (DOMAIN m) \cup {k} |-> IF x = k THEN v ELSE m[x]]

Has(m, k) == k \in DOMAIN m

Range(s) == {s[i] : i \in DOMAIN s}

Roles == {"Author", "Collaborator", "Reviewer"}

(* Passwords are described by what validatePassword reads: the length and  *)
(* the character classes present.                                          *)
PasswordShape ==
    [ p \in {"StrongPass!234", "OtherPass#5678", "short1!A", "alllowercase12"} |->
        CASE p = "StrongPass!234" -> [len |-> 14, classes |-> {"upper", "lower", "digit", "symbol"}]
          [] p = "OtherPass#5678" -> [len |-> 14, classes |-> {"upper", "lower", "digit", "symbol"}]
          [] p = "short1!A"       -> [len |-> 8,  classes |-> {"upper", "lower", "digit", "symbol"}]
          [] p = "alllowercase12" -> [len |-> 14, classes |-> {"lower", "digit"}] ]

validatePasswordLengthOnly(password) ==
    password # "" /\ PasswordShape[password].len >= MinPasswordLength

validatePassword(password) ==
    /\ password # ""
    /\ PasswordShape[password].len >= MinPasswordLength
    /\ "upper" \in PasswordShape[password].classes
    /\ "lower" \in PasswordShape[password].classes
    /\ "digit" \in PasswordShape[password].classes
    /\ "symbol" \in PasswordShape[password].classes

hashPassword(password) == [kind |-> "bcrypt", of |-> password]

verifyPassword(password, hash) == hash.of = password

-----------------------------------------------------------------------------
(* The crypto helpers.  A ciphertext records the key that made it and the  *)
(* bytes inside; decryption under another key, or with a tag that does not *)
(* authenticate the ciphertext, throws (Failed).  The base64 string that   *)
(* toString('base64') produces is written as the bytes it encodes; any     *)
(* other spelling of the same bytes (padding dropped, or the unused low     *)
(* bits of the last character changed) carries a slack mark, which         *)
(* Buffer.from(s, 'base64') ignores.                                       *)

Failed == [kind |-> "error"]

generateRSAKeyPair(n) ==
    [publicKey  |-> [kind |-> "rsa-public", k |-> n],
     privateKey |-> [kind |-> "rsa-private", k |-> n]]

generateAESKey(n) == [kind |-> "aes-key", k |-> n]

deriveKey(password, saltHex) == [kind |-> "pbkdf2", password |-> password, salt |-> saltHex]

gcmTag(key, plaintext) == [key |-> key, over |-> plaintext]

aesEncrypt(plaintext, key) ==
    [kind |-> "aes-gcm", key |-> key, ciphertext |-> plaintext, tag |-> gcmTag(key, plaintext)]

respell(bytes) == [kind |-> "base64", bytes |-> bytes, slack |-> TRUE]

decodeBase64(stored) == IF "slack" \in DOMAIN stored THEN stored.bytes ELSE stored

aesDecrypt(encObj, key) ==
    LET tag        == decodeBase64(encObj.tag)
        ciphertext == decodeBase64(encObj.ciphertext)
    IN  IF encObj.key = key /\ tag = gcmTag(key, ciphertext)
        THEN ciphertext
        ELSE Failed

rsaEncrypt(publicKeyPem, buffer) == [kind |-> "rsa-oaep", to |-> publicKeyPem.k, wrapped |-> buffer]

rsaDecrypt(privateKeyPem, enc) ==
    IF privateKeyPem.kind = "rsa-private" /\ privateKeyPem.k = enc.to THEN enc.wrapped ELSE Failed

sha256(buffer) == [kind |-> "sha256", of |-> buffer]

sign(privateKeyPem, data) == [kind |-> "rsa-sha256", by |-> privateKeyPem.k, over |-> data]

verify(publicKeyPem, data, signature) ==
    /\ publicKeyPem # Null
    /\ signature.by = publicKeyPem.k
    /\ signature.over = data

-----------------------------------------------------------------------------
(* The access-control table.                                               *)

ACLAuthorReadsReviews ==
    [Author       |-> [Paper |-> {"create", "read", "update"}, Review |-> {"read"},
                       FinalDecision |-> {"read"}],
     Collaborator |-> [Paper |-> {"read", "update"}, Review |-> {"read"},
                       FinalDecision |-> {"create", "read"}],
     Reviewer     |-> [Paper |-> {"read"}, Review |-> {"create"},
                       FinalDecision |-> {}]]

ACL ==
    [Author       |-> [Paper |-> {"create", "read", "update"}, Review |-> {},
                       FinalDecision |-> {"read"}],
     Collaborator |-> [Paper |-> {"read", "update"}, Review |-> {"read"},
                       FinalDecision |-> {"create", "read"}],
     Reviewer     |-> [Paper |-> {"read"}, Review |-> {"create"},
                       FinalDecision |-> {}]]

(* ACL[role] and rolePerms[objectType] are JavaScript property reads: a    *)
(* name that is not an own property is looked up on Object.prototype, so   *)
(* 'constructor' and 'toString' yield function objects, whose own 'name'   *)
(* is a string.                                                            *)
objectPrototype(key) ==
    CASE key = "constructor" -> [kind |-> "function", name |-> "Object"]
      [] key = "toString"    -> [kind |-> "function", name |-> "toString"]
      [] OTHER               -> Null

getProperty(obj, key) ==
    CASE obj.kind = "object" ->
             IF key \in DOMAIN obj.own
             THEN [kind |-> "array", items |-> obj.own[key]]
             ELSE objectPrototype(key)
      [] obj.kind = "function" ->
             IF key = "name" THEN [kind |-> "string", text |-> obj.name]
             ELSE objectPrototype(key)
      [] OTHER -> Null

rolePerms(role) ==
    IF role \in DOMAIN ACL THEN [kind |-> "object", own |-> ACL[role]]
    ELSE objectPrototype(role)

(* rolePerms[objectType] || []                                             *)
allowedFor(role, objectType) ==
    IF getProperty(rolePerms(role), objectType) = Null
    THEN [kind |-> "array", items |-> {}]
    ELSE getProperty(rolePerms(role), objectType)

(* allowed.includes(action): Array.prototype.includes on an array,         *)
(* String.prototype.includes on a string (the inputs used here have no     *)
(* proper substring of a function name); any other value has no includes   *)
(* and the call throws a TypeError.                                        *)
checkAccessThrows(role, objectType, action) ==
    /\ rolePerms(role) # Null
    /\ allowedFor(role, objectType).kind \notin {"array", "string"}

checkAccess(role, objectType, action) ==
    IF rolePerms(role) = Null THEN FALSE
    ELSE CASE allowedFor(role, objectType).kind = "array" ->
                  action \in allowedFor(role, objectType).items
           [] allowedFor(role, objectType).kind = "string" ->
                  action = allowedFor(role, objectType).text
           [] OTHER -> FALSE

-----------------------------------------------------------------------------
(* The store.                                                              *)

EmptyDB == [users |-> EmptyMap, papers |-> EmptyMap, reviews |-> EmptyMap,
            otps |-> EmptyMap, logs |-> <<>>]

readDB == disk

logEvent(db, entry) == [db EXCEPT !.logs = Append(@, [ts |-> now] @@ entry)]

(* The key custody map.                                                    *)

storePrivateKeyKeepingFirst(store, sessionId, privateKeyPem) ==
    IF store[sessionId] # Null THEN store
    ELSE [store EXCEPT ![sessionId] = [privateKeyPem |-> privateKeyPem, expiresAt |-> now + KeyTtl]]

storePrivateKeyForSession(store, sessionId, privateKeyPem) ==
    [store EXCEPT ![sessionId] = [privateKeyPem |-> privateKeyPem, expiresAt |-> now + KeyTtl]]

keyExpiredLate(rec) == now > rec.expiresAt + 1

keyExpired(rec) == now > rec.expiresAt

getPrivateKeyForSession(store, sessionId) ==
    IF store[sessionId] = Null THEN Null
    ELSE IF keyExpired(store[sessionId]) THEN Null
    ELSE store[sessionId].privateKeyPem

storeAfterGet(store, sessionId) ==
    IF store[sessionId] # Null /\ keyExpired(store[sessionId])
    THEN [store EXCEPT ![sessionId] = Null]
    ELSE store

keepPrivateKey(store, sessionId) == store

clearPrivateKeyForSession(store, sessionId) == [store EXCEPT ![sessionId] = Null]

-----------------------------------------------------------------------------
(* Principals and inputs.                                                  *)

Emails == {"alice@example.com", "colab@example.com", "rev@example.com",
           "mallory@example.com", "dave@example.com"}

Sessions == {"s1", "s2", "s3", "s4"}

OtpCodes == {"482913", "100000"}

NoHist == [ok |-> 0, invalid |-> 0, code |-> "", failed |-> 0, lockedAt |-> -1]

-----------------------------------------------------------------------------
(* POST /api/signup                                                        *)

encryptPrivateKey(privateKey, password, saltHex) ==
    aesEncrypt(privateKey, deriveKey(password, saltHex))

signupUser(email, password, role, n) ==
    [email |-> email,
     role |-> role,
     passwordHash |-> hashPassword(password),
     rsaPublicKey |-> generateRSAKeyPair(n).publicKey,
     rsaPrivateKeyEncrypted |-> encryptPrivateKey(generateRSAKeyPair(n).privateKey, password, n),
     rsaPrivSalt |-> n,
     failedLogins |-> 0,
     lockUntil |-> 0,
     id |-> n]

issueOtp(otp) == [otp |-> otp, expires |-> now + OtpTtl, used |-> FALSE]

signupDB(db, email, password, role, otp, n) ==
    [logEvent([db EXCEPT !.users = Put(@, email, signupUser(email, password, role, n))],
              [event |-> "signup", email |-> email])
       EXCEPT !.otps = Put(@, email, issueOtp(otp))]

signupError(email, password, role) ==
    IF email = "" \/ password = "" \/ role = "" THEN "missing"
    ELSE IF role \notin Roles THEN "invalid role"
    ELSE IF ~validatePassword(password) THEN "weak password"
    ELSE IF Has(readDB.users, email) THEN "exists"
    ELSE ""

Signup(email, password, role, otp) ==
    LET err == signupError(email, password, role)
        db  == signupDB(readDB, email, password, role, otp, nextId)
    IN  IF err # ""
        THEN /\ resp' = [op |-> "signup", email |-> email, status |-> 400, error |-> err,
                         password |-> password, role |-> role]
             /\ UNCHANGED <<disk, pending, session, privateKeyStore, now, nextId, otpHist>>
        ELSE /\ disk' = db
             /\ pending' = pending \cup {[db |-> db, email |-> email]}
             /\ nextId' = nextId + 1
             /\ otpHist' = [otpHist EXCEPT ![email] = [NoHist EXCEPT !.code = otp]]
             /\ resp' = [op |-> "signup", email |-> email, status |-> 200, error |-> "",
                         password |-> password, role |-> role]
             /\ UNCHANGED <<session, privateKeyStore, now>>

(* The deferred callback of signup: logEvent on the DB object that signup  *)
(* read and built, whatever has been written to the file since.            *)
OtpSentCallback(cb, sent) ==
    /\ cb \in pending
    /\ disk' = logEvent(cb.db, [event |-> "otp_sent", email |-> cb.email, sent |-> sent])
    /\ pending' = pending \ {cb}
    /\ resp' = [op |-> "otp_sent", email |-> cb.email, status |-> 0, error |-> ""]
    /\ UNCHANGED <<session, privateKeyStore, now, nextId, otpHist>>

-----------------------------------------------------------------------------
(* POST /api/verify-otp                                                    *)

attemptsOf(record) == IF "attempts" \in DOMAIN record THEN record.attempts ELSE 0

withAttempts(record, n) ==
    [otp |-> record.otp, expires |-> record.expires, used |-> record.used, attempts |-> n]

otpExpiredAtDeadline(record) == now >= record.expires

otpExpired(record) == now > record.expires

otpLocked(attempts) == attempts >= MaxOtpAttempts

verifyOtpResult(record, otp) ==
    IF record.used THEN "otp used"
    ELSE IF otpExpired(record) THEN "expired"
    ELSE IF record.otp # otp THEN "invalid"
    ELSE "ok"

verifyOtpDB(db, email, otp) ==
    LET record == withAttempts(db.otps[email], attemptsOf(db.otps[email]))
        result == verifyOtpResult(record, otp)
        bumped == withAttempts(record, record.attempts + 1)
        set(r) == [db EXCEPT !.otps = Put(@, email, r)]
    IN  CASE result = "otp used" ->
               logEvent(set(record), [event |-> "otp_replay_attempt", email |-> email])
          [] result = "expired" ->
               logEvent(set(record), [event |-> "otp_expired", email |-> email])
          [] result = "invalid" ->
               [logEvent(set(bumped),
                         [event |-> "otp_invalid", email |-> email, attempts |-> bumped.attempts])
                  EXCEPT !.otps = Put(@, email,
                      IF otpLocked(bumped.attempts) THEN [bumped EXCEPT !.used = TRUE] ELSE bumped)]
          [] OTHER ->
               logEvent(set([record EXCEPT !.used = TRUE]),
                        [event |-> "otp_verified", email |-> email])

VerifyOtp(email, otp) ==
    LET DB == readDB
    IN  IF ~Has(DB.otps, email)
        THEN /\ resp' = [op |-> "verify-otp", email |-> email, otp |-> otp, status |-> 400,
                         error |-> "no otp", record |-> Null, at |-> now,
                         before |-> otpHist[email]]
             /\ UNCHANGED <<disk, pending, session, privateKeyStore, now, nextId, otpHist>>
        ELSE LET result == verifyOtpResult(DB.otps[email], otp)
             IN  /\ disk' = verifyOtpDB(DB, email, otp)
                 /\ otpHist' = [otpHist EXCEPT
                        ![email].ok = IF result = "ok" THEN @ + 1 ELSE @,
                        ![email].invalid = IF result = "invalid" THEN @ + 1 ELSE @]
                 /\ resp' = [op |-> "verify-otp", email |-> email, otp |-> otp,
                             status |-> IF result = "ok" THEN 200 ELSE 400,
                             error |-> IF result = "ok" THEN "" ELSE result,
                             record |-> DB.otps[email], at |-> now,
                             before |-> otpHist[email]]
                 /\ UNCHANGED <<pending, session, privateKeyStore, now, nextId>>

-----------------------------------------------------------------------------
(* POST /api/login                                                         *)

sessionUser(user) == [email |-> user.email, role |-> user.role, id |-> user.id]

unlockPrivateKey(user, password) ==
    aesDecrypt(user.rsaPrivateKeyEncrypted, deriveKey(password, user.rsaPrivSalt))

accountLocked(user) == user.lockUntil # 0 /\ now < user.lockUntil

loginSuccessLoggingKeyDB(DB, email) ==
    logEvent([DB EXCEPT !.users[email].failedLogins = 0, !.users[email].lockUntil = 0],
             [event |-> "login_success", email |-> email,
              key |-> DB.users[email].rsaPrivateKeyEncrypted.ciphertext])

loginSuccessDB(DB, email) ==
    logEvent([DB EXCEPT !.users[email].failedLogins = 0, !.users[email].lockUntil = 0],
             [event |-> "login_success", email |-> email])

failedLogin(user) ==
    [user EXCEPT !.failedLogins = @ + 1,
                 !.lockUntil = IF user.failedLogins + 1 >= MaxFailedLogins
                               THEN now + LockoutPeriod ELSE @]

Login(s, email, password) ==
    LET DB    == readDB
        user  == DB.users[email]
        reset == [user EXCEPT !.failedLogins = 0, !.lockUntil = 0]
        DB2   == [DB EXCEPT !.users = Put(@, email, reset)]
        priv  == unlockPrivateKey(user, password)
        answer(status, error) ==
            [op |-> "login", sid |-> s, email |-> email, status |-> status, error |-> error,
             at |-> now,
             match |-> Has(DB.users, email) /\ verifyPassword(password, user.passwordHash)]
    IN  IF ~Has(DB.users, email)
        THEN /\ disk' = logEvent(DB, [event |-> "login_failed_unknown", email |-> email])
             /\ resp' = answer(401, "invalid")
             /\ UNCHANGED <<pending, session, privateKeyStore, now, nextId, otpHist>>
        ELSE IF accountLocked(user)
        THEN /\ disk' = logEvent(DB, [event |-> "login_locked", email |-> email])
             /\ resp' = answer(423, "account locked")
             /\ UNCHANGED <<pending, session, privateKeyStore, now, nextId, otpHist>>
        ELSE IF ~verifyPassword(password, user.passwordHash)
        THEN /\ disk' = logEvent([DB EXCEPT !.users = Put(@, email, failedLogin(user))],
                                 [event |-> "login_failed", email |-> email,
                                  failedAttempts |-> user.failedLogins + 1])
             /\ resp' = answer(401, "invalid")
             /\ otpHist' = [otpHist EXCEPT
                    ![email].failed = @ + 1,
                    ![email].lockedAt =
                        IF otpHist[email].failed + 1 >= MaxFailedLogins THEN now ELSE @]
             /\ UNCHANGED <<pending, session, privateKeyStore, now, nextId>>
        ELSE IF priv = Failed
        THEN /\ disk' = logEvent(DB2, [event |-> "login_priv_decrypt_failed", email |-> email,
                                       err |-> "Error"])
             /\ resp' = answer(500, "crypto")
             /\ otpHist' = [otpHist EXCEPT ![email].failed = 0, ![email].lockedAt = -1]
             /\ UNCHANGED <<pending, session, privateKeyStore, now, nextId>>
        ELSE /\ session' = [session EXCEPT ![s] = sessionUser(user)]
             /\ privateKeyStore' = storePrivateKeyForSession(privateKeyStore, s, priv)
             /\ disk' = loginSuccessDB(DB, email)
             /\ resp' = answer(200, "")
             /\ otpHist' = [otpHist EXCEPT ![email].failed = 0, ![email].lockedAt = -1]
             /\ UNCHANGED <<pending, now, nextId>>

(* requireAuth, when it rejects the request.                               *)
Unauthenticated(s, op, path) ==
    /\ session[s] = Null
    /\ disk' = logEvent(readDB, [event |-> "unauthenticated_access", path |-> path])
    /\ resp' = [op |-> op, sid |-> s, email |-> "", role |-> "", pid |-> 0,
                status |-> 401, error |-> "auth required", plain |-> Null,
                held |-> privateKeyStore[s] # Null, live |-> FALSE]
    /\ UNCHANGED <<pending, session, privateKeyStore, now, nextId, otpHist>>

(* POST /api/logout                                                        *)
Logout(s, destroyed) ==
    \/ Unauthenticated(s, "logout", "/api/logout")
    \/ /\ session[s] # Null
       /\ privateKeyStore' = clearPrivateKeyForSession(privateKeyStore, s)
       /\ session' = IF destroyed THEN [session EXCEPT ![s] = Null] ELSE session
       /\ resp' = [op |-> "logout", sid |-> s, email |-> session[s].email,
                   status |-> IF destroyed THEN 200 ELSE 500,
                   error |-> IF destroyed THEN "" ELSE "logout failed",
                   held |-> privateKeyStore[s] # Null]
       /\ UNCHANGED <<disk, pending, now, nextId, otpHist>>

-----------------------------------------------------------------------------
(* Buffers.  Buffer.from(s, 'base64') accepts unpadded input; toString     *)
(* ('base64') always pads.                                                 *)

Buffer(bytes) == [kind |-> "buffer", bytes |-> bytes]

bufferFromBase64(b64) ==
    CASE b64 \in {"aGVsbG8=", "aGVsbG8"} -> Buffer("hello")
      [] b64 = "cmV2aWV3" -> Buffer("review")
      [] OTHER -> Buffer("")

toBase64(buffer) ==
    CASE buffer.bytes = "hello" -> "aGVsbG8="
      [] buffer.bytes = "review" -> "cmV2aWV3"
      [] OTHER -> ""

bufferFromUtf8(text) == Buffer(text)

-----------------------------------------------------------------------------
(* Papers, reviews and decisions.                                          *)

Reply(op, s, pid, status, error, plain) ==
    [op |-> op, sid |-> s, email |-> session[s].email, role |-> session[s].role, pid |-> pid,
     status |-> status, error |-> error, plain |-> plain, held |-> privateKeyStore[s] # Null,
     live |-> getPrivateKeyForSession(privateKeyStore, s) # Null]

SeqToSet(list) == {list[i] : i \in DOMAIN list}

(* encryptedKeys: one wrapped key per recipient that has a user record     *)
(* with a public key; the others are skipped.                              *)
wrapForRecipients(DB, recipients, aesKey) ==
    [r \in {x \in recipients : Has(DB.users, x)} |->
        rsaEncrypt(DB.users[r].rsaPublicKey, aesKey)]

paperRecipients(email, collaborators, reviewers) ==
    {email} \cup SeqToSet(collaborators) \cup SeqToSet(reviewers)

newPaper(DB, pid, user, title, fileBase64, collaborators, reviewers) ==
    [id |-> pid,
     title |-> title,
     owner |-> user.email,
     collaborators |-> collaborators,
     reviewers |-> reviewers,
     versions |-> <<[ts |-> now,
                     enc |-> aesEncrypt(bufferFromBase64(fileBase64), generateAESKey(pid)),
                     hash |-> sha256(bufferFromBase64(fileBase64))]>>,
     encryptedKeys |-> wrapForRecipients(DB,
                           paperRecipients(user.email, collaborators, reviewers),
                           generateAESKey(pid)),
     decision |-> Null]

createPaperDB(DB, pid, user, title, fileBase64, collaborators, reviewers) ==
    logEvent([DB EXCEPT !.papers = Put(@, pid,
                 newPaper(DB, pid, user, title, fileBase64, collaborators, reviewers))],
             [event |-> "paper_created", pid |-> pid, by |-> user.email])

(* POST /api/papers.  The denial branch reads DB before its declaration,   *)
(* which throws; the framework answers 500.                                *)
CreatePaper(s, title, fileBase64, collaborators, reviewers) ==
    \/ Unauthenticated(s, "create-paper", "/api/papers")
    \/ /\ session[s] # Null
       /\ LET user == session[s]
              DB   == readDB
              pid  == nextId
          IN  IF ~checkAccess(user.role, "Paper", "create")
              THEN /\ resp' = Reply("create-paper", s, 0, 500, "ReferenceError", Null)
                   /\ UNCHANGED <<disk, pending, session, privateKeyStore, now, nextId, otpHist>>
              ELSE IF title = "" \/ fileBase64 = ""
              THEN /\ resp' = Reply("create-paper", s, 0, 400, "missing", Null)
                   /\ UNCHANGED <<disk, pending, session, privateKeyStore, now, nextId, otpHist>>
              ELSE /\ disk' = createPaperDB(DB, pid, user, title, fileBase64,
                                          collaborators, reviewers)
                   /\ nextId' = nextId + 1
                   /\ resp' = Reply("create-paper", s, pid, 200, "", Null)
                   /\ UNCHANGED <<pending, session, privateKeyStore, now, otpHist>>

anyUser(paper) == Emails

allowedUsers(paper) ==
    {paper.owner} \cup SeqToSet(paper.collaborators) \cup SeqToSet(paper.reviewers)

(* Unwrap the object key with the session's key and decrypt; Failed when   *)
(* either step throws.                                                     *)
openAs(priv, encKey, enc) ==
    IF rsaDecrypt(priv, encKey) = Failed THEN Failed
    ELSE aesDecrypt(enc, rsaDecrypt(priv, encKey))

(* The catch block of the two read handlers: one log entry, written with   *)
(* the store as loaded by the handler.                                     *)
onDecryptErrorDroppingPayloads(DB, entry) ==
    logEvent([DB EXCEPT !.papers = EmptyMap, !.reviews = EmptyMap], entry)

onDecryptError(DB, entry) == logEvent(DB, entry)

(* GET /api/papers/:id                                                     *)
ReadPaper(s, pid) ==
    \/ Unauthenticated(s, "read-paper", "/api/papers/:id")
    \/ /\ session[s] # Null
       /\ LET user  == session[s]
              DB    == readDB
              paper == DB.papers[pid]
              priv  == getPrivateKeyForSession(privateKeyStore, s)
              plain == openAs(priv, paper.encryptedKeys[user.email],
                              paper.versions[Len(paper.versions)].enc)
              quiet(status, error) ==
                  /\ resp' = Reply("read-paper", s, pid, status, error, Null)
                  /\ UNCHANGED <<disk, pending, session, privateKeyStore, now, nextId, otpHist>>
          IN  IF ~Has(DB.papers, pid) THEN quiet(404, "not found")
              ELSE IF user.email \notin allowedUsers(paper)
              THEN /\ disk' = logEvent(DB, [event |-> "access_denied", by |-> user.email,
                                            pid |-> pid, reason |-> "not a recipient"])
                   /\ resp' = Reply("read-paper", s, pid, 403, "forbidden", Null)
                   /\ UNCHANGED <<pending, session, privateKeyStore, now, nextId, otpHist>>
              ELSE IF ~checkAccess(user.role, "Paper", "read") THEN quiet(403, "forbidden-role")
              ELSE IF ~Has(paper.encryptedKeys, user.email) THEN quiet(403, "no key")
              ELSE IF priv = Null
              THEN /\ privateKeyStore' = storeAfterGet(privateKeyStore, s)
                   /\ resp' = Reply("read-paper", s, pid, 401,
                                    "private key not available; re-login required", Null)
                   /\ UNCHANGED <<disk, pending, session, now, nextId, otpHist>>
              ELSE IF plain = Failed
              THEN /\ disk' = onDecryptError(DB, [event |-> "decrypt_failed", pid |-> pid,
                                                  by |-> user.email, err |-> "Error"])
                   /\ resp' = Reply("read-paper", s, pid, 500, "decrypt", Null)
                   /\ UNCHANGED <<pending, session, privateKeyStore, now, nextId, otpHist>>
              ELSE /\ disk' = logEvent(DB, [event |-> "paper_decrypted", pid |-> pid,
                                            by |-> user.email])
                   /\ resp' = Reply("read-paper", s, pid, 200, "",
                                    [fileBase64 |-> toBase64(plain),
                                     hash |-> paper.versions[Len(paper.versions)].hash])
                   /\ UNCHANGED <<pending, session, privateKeyStore, now, nextId, otpHist>>

reviewRecipients(paper) == {paper.owner} \cup SeqToSet(paper.collaborators)

newReview(DB, rid, pid, user, reviewBase64) ==
    [id |-> rid,
     pid |-> pid,
     by |-> user.email,
     enc |-> aesEncrypt(bufferFromBase64(reviewBase64), generateAESKey(rid)),
     hash |-> sha256(bufferFromBase64(reviewBase64)),
     encryptedKeys |-> wrapForRecipients(DB, reviewRecipients(DB.papers[pid]),
                                         generateAESKey(rid)),
     ts |-> now]

(* POST /api/papers/:id/reviews                                            *)
CreateReview(s, pid, reviewBase64) ==
    \/ Unauthenticated(s, "create-review", "/api/papers/:id/reviews")
    \/ /\ session[s] # Null
       /\ LET user  == session[s]
              DB    == readDB
              paper == DB.papers[pid]
              rid   == nextId
              quiet(status, error) ==
                  /\ resp' = Reply("create-review", s, pid, status, error, Null)
                  /\ UNCHANGED <<disk, pending, session, privateKeyStore, now, nextId, otpHist>>
          IN  IF ~Has(DB.papers, pid) THEN quiet(404, "not found")
              ELSE IF user.email \notin SeqToSet(paper.reviewers) THEN quiet(403, "not assigned")
              ELSE IF ~checkAccess(user.role, "Review", "create") THEN quiet(403, "forbidden-role")
              ELSE /\ disk' = logEvent(
                        [DB EXCEPT !.reviews = Put(@, rid, newReview(DB, rid, pid, user, reviewBase64))],
                        [event |-> "review_submitted", rid |-> rid, pid |-> pid, by |-> user.email])
                   /\ nextId' = nextId + 1
                   /\ resp' = Reply("create-review", s, pid, 200, "", [id |-> rid])
                   /\ UNCHANGED <<pending, session, privateKeyStore, now, otpHist>>

newDecision(user, priv, decisionText) ==
    [by |-> user.email,
     decisionText |-> decisionText,
     hash |-> sha256(bufferFromUtf8(decisionText)),
     signature |-> sign(priv, bufferFromUtf8(decisionText)),
     ts |-> now]

(* POST /api/papers/:id/decision                                           *)
CreateDecision(s, pid, decisionText) ==
    \/ Unauthenticated(s, "create-decision", "/api/papers/:id/decision")
    \/ /\ session[s] # Null
       /\ LET user  == session[s]
              DB    == readDB
              paper == DB.papers[pid]
              priv  == getPrivateKeyForSession(privateKeyStore, s)
              quiet(status, error) ==
                  /\ resp' = Reply("create-decision", s, pid, status, error, Null)
                  /\ UNCHANGED <<disk, pending, session, privateKeyStore, now, nextId, otpHist>>
          IN  IF ~Has(DB.papers, pid) THEN quiet(404, "not found")
              ELSE IF user.email \notin SeqToSet(paper.collaborators)
              THEN quiet(403, "not collaborator")
              ELSE IF ~checkAccess(user.role, "FinalDecision", "create")
              THEN quiet(403, "forbidden-role")
              ELSE IF priv = Null
              THEN /\ privateKeyStore' = storeAfterGet(privateKeyStore, s)
                   /\ resp' = Reply("create-decision", s, pid, 401,
                                    "private key not available; re-login required", Null)
                   /\ UNCHANGED <<disk, pending, session, now, nextId, otpHist>>
              ELSE /\ disk' = logEvent(
                        [DB EXCEPT !.papers[pid].decision = newDecision(user, priv, decisionText)],
                        [event |-> "decision_issued", pid |-> pid, by |-> user.email])
                   /\ resp' = Reply("create-decision", s, pid, 200, "", Null)
                   /\ UNCHANGED <<pending, session, privateKeyStore, now, nextId, otpHist>>

signerPublicKey(DB, dec) ==
    IF Has(DB.users, dec.by) THEN DB.users[dec.by].rsaPublicKey ELSE Null

(* The signature is checked against the decision text alone.               *)
signatureValid(DB, dec) ==
    verify(signerPublicKey(DB, dec), bufferFromUtf8(dec.decisionText), dec.signature)

(* GET /api/papers/:id/decision.  crypto verify throws on a missing key;   *)
(* the framework answers 500.                                              *)
ReadDecision(s, pid) ==
    \/ Unauthenticated(s, "read-decision", "/api/papers/:id/decision")
    \/ /\ session[s] # Null
       /\ LET user  == session[s]
              DB    == readDB
              dec   == DB.papers[pid].decision
              ok    == signatureValid(DB, dec)
              quiet(status, error) ==
                  /\ resp' = Reply("read-decision", s, pid, status, error, Null)
                  /\ UNCHANGED <<disk, pending, session, privateKeyStore, now, nextId, otpHist>>
          IN  IF ~Has(DB.papers, pid) THEN quiet(404, "no decision")
              ELSE IF dec = Null THEN quiet(404, "no decision")
              ELSE IF ~checkAccess(user.role, "FinalDecision", "read")
              THEN /\ disk' = logEvent(DB, [event |-> "access_denied", by |-> user.email,
                                            object |-> "FinalDecision", pid |-> pid])
                   /\ resp' = Reply("read-decision", s, pid, 403, "forbidden", Null)
                   /\ UNCHANGED <<pending, session, privateKeyStore, now, nextId, otpHist>>
              ELSE IF signerPublicKey(DB, dec) = Null THEN quiet(500, "TypeError")
              ELSE /\ disk' = logEvent(DB, [event |-> "decision_read", pid |-> pid,
                                            by |-> user.email, verified |-> ok])
                   /\ resp' = Reply("read-decision", s, pid, 200, "",
                                    [decision |-> dec, signature_valid |-> ok])
                   /\ UNCHANGED <<pending, session, privateKeyStore, now, nextId, otpHist>>

isOwnerOrCollab(paper, email) ==
    paper.owner = email \/ email \in SeqToSet(paper.collaborators)

(* GET /api/reviews/:id                                                    *)
ReadReview(s, rid) ==
    \/ Unauthenticated(s, "read-review", "/api/reviews/:id")
    \/ /\ session[s] # Null
       /\ LET user   == session[s]
              DB     == readDB
              review == DB.reviews[rid]
              paper  == DB.papers[review.pid]
              priv   == getPrivateKeyForSession(privateKeyStore, s)
              plain  == openAs(priv, review.encryptedKeys[user.email], review.enc)
              pidOf  == IF Has(DB.reviews, rid) THEN review.pid ELSE 0
              quiet(status, error) ==
                  /\ resp' = Reply("read-review", s, pidOf, status, error, Null)
                  /\ UNCHANGED <<disk, pending, session, privateKeyStore, now, nextId, otpHist>>
          IN  IF ~Has(DB.reviews, rid) THEN quiet(404, "not found")
              ELSE IF ~Has(DB.papers, review.pid) THEN quiet(404, "parent paper not found")
              ELSE IF ~isOwnerOrCollab(paper, user.email)
              THEN /\ disk' = logEvent(DB, [event |-> "access_denied", by |-> user.email,
                                            rid |-> rid, reason |-> "not owner or collaborator"])
                   /\ resp' = Reply("read-review", s, pidOf, 403, "forbidden", Null)
                   /\ UNCHANGED <<pending, session, privateKeyStore, now, nextId, otpHist>>
              ELSE IF ~checkAccess(user.role, "Review", "read") THEN quiet(403, "forbidden-role")
              ELSE IF ~Has(review.encryptedKeys, user.email) THEN quiet(403, "no key")
              ELSE IF priv = Null
              THEN /\ privateKeyStore' = storeAfterGet(privateKeyStore, s)
                   /\ resp' = Reply("read-review", s, pidOf, 401,
                                    "private key not available; re-login required", Null)
                   /\ UNCHANGED <<disk, pending, session, now, nextId, otpHist>>
              ELSE IF plain = Failed
              THEN /\ disk' = onDecryptError(DB, [event |-> "review_decrypt_failed", rid |-> rid,
                                                  by |-> user.email, err |-> "Error"])
                   /\ resp' = Reply("read-review", s, pidOf, 500, "decrypt", Null)
                   /\ UNCHANGED <<pending, session, privateKeyStore, now, nextId, otpHist>>
              ELSE /\ disk' = logEvent(DB, [event |-> "review_decrypted", rid |-> rid,
                                            by |-> user.email])
                   /\ resp' = Reply("read-review", s, pidOf, 200, "",
                                    [fileBase64 |-> toBase64(plain), hash |-> review.hash])
                   /\ UNCHANGED <<pending, session, privateKeyStore, now, nextId, otpHist>>

(* GET /api/logs.  The denial branch reads DB before its declaration,      *)
(* which throws; the framework answers 500.                                *)
ReadLogs(s) ==
    \/ Unauthenticated(s, "read-logs", "/api/logs")
    \/ /\ session[s] # Null
       /\ LET user == session[s]
              DB   == readDB
          IN  /\ resp' = IF ~checkAccess(user.role, "FinalDecision", "read")
                         THEN Reply("read-logs", s, 0, 500, "ReferenceError", Null)
                         ELSE Reply("read-logs", s, 0, 200, "", [logs |-> DB.logs])
              /\ UNCHANGED <<disk, pending, session, privateKeyStore, now, nextId, otpHist>>

sweepOnlyAtDeadline(rec) == rec.expiresAt = now

sweepDue(rec) == rec.expiresAt <= now

(* The hourly sweep of expired key handles.                                *)
SweepExpired ==
    /\ privateKeyStore' = [s \in Sessions |->
           IF privateKeyStore[s] # Null /\ sweepDue(privateKeyStore[s])
           THEN Null ELSE privateKeyStore[s]]
    /\ UNCHANGED <<disk, pending, session, now, nextId, otpHist, resp>>

-----------------------------------------------------------------------------
(* Wall-clock time.                                                        *)

Tick(d) ==
    /\ now' = now + d
    /\ UNCHANGED <<disk, pending, session, privateKeyStore, nextId, otpHist, resp>>

-----------------------------------------------------------------------------
(* The state after construction.                                           *)

PortalSessions == {"c1", "c2"}

NoSession == [userId |-> 0, mfaVerified |-> FALSE, pendingRegistration |-> Null]

NoPortal ==
    [decisions |-> EmptyMap, clock |-> 0, pssAccepted |-> FALSE,
     users |-> EmptyMap, nextUser |-> 1, sessions |-> [c \in PortalSessions |-> NoSession],
     papers |-> EmptyMap, access |-> {}, revokedSince |-> {}]

Init ==
    /\ disk = EmptyDB
    /\ pending = {}
    /\ session = [s \in Sessions |-> Null]
    /\ privateKeyStore = [s \in Sessions |-> Null]
    /\ now = 0
    /\ nextId = 1
    /\ otpHist = [e \in Emails |-> NoHist]
    /\ resp = [op |-> "none", status |-> 0, error |-> ""]
    /\ portal = NoPortal

(* Every handler and callback, from the state after construction.        *)

SpecEmails == {"alice@example.com", "colab@example.com"}

SpecSessions == {"s1"}

RoleFor ==
    [e \in Emails |->
        CASE e = "alice@example.com" -> "Author"
          [] e = "mallory@example.com" -> "Author"
          [] e = "colab@example.com" -> "Collaborator"
          [] OTHER -> "Reviewer"]

Budget == Len(disk.logs) < MaxLogs

PaperIds == DOMAIN disk.papers \cup {0}

ReviewIds == DOMAIN disk.reviews \cup {0}

DoSignup ==
    /\ UNCHANGED portal
    /\ Budget
    /\ \E e \in SpecEmails, p \in {"StrongPass!234", "short1!A"}, c \in OtpCodes :
          \E r \in {RoleFor[e], "Editor"} : Signup(e, p, r, c)

DoOtpSent == UNCHANGED portal /\ Budget /\ \E cb \in pending, sent \in BOOLEAN : OtpSentCallback(cb, sent)

DoVerifyOtp == UNCHANGED portal /\ Budget /\ \E e \in SpecEmails, c \in OtpCodes : VerifyOtp(e, c)

DoLogin ==
    /\ UNCHANGED portal
    /\ Budget
    /\ \E s \in SpecSessions, e \in SpecEmails, p \in {"StrongPass!234", "OtherPass#5678"} :
          Login(s, e, p)

DoLogout == UNCHANGED portal /\ Budget /\ \E s \in SpecSessions, d \in BOOLEAN : Logout(s, d)

DoCreatePaper ==
    /\ UNCHANGED portal
    /\ Budget
    /\ \E s \in SpecSessions, f \in {"aGVsbG8=", ""},
          c \in {<<>>, <<"colab@example.com">>}, r \in {<<>>, <<"colab@example.com">>} :
          CreatePaper(s, "Test Paper", f, c, r)

DoReadPaper == UNCHANGED portal /\ Budget /\ \E s \in SpecSessions, pid \in PaperIds : ReadPaper(s, pid)

DoCreateReview ==
    UNCHANGED portal /\ Budget /\ \E s \in SpecSessions, pid \in PaperIds : CreateReview(s, pid, "cmV2aWV3")

DoCreateDecision ==
    UNCHANGED portal /\ Budget /\ \E s \in SpecSessions, pid \in PaperIds : CreateDecision(s, pid, "Accept")

DoReadDecision == UNCHANGED portal /\ Budget /\ \E s \in SpecSessions, pid \in PaperIds : ReadDecision(s, pid)

DoReadReview == UNCHANGED portal /\ Budget /\ \E s \in SpecSessions, rid \in ReviewIds : ReadReview(s, rid)

DoTick == UNCHANGED portal /\ \E d \in {OtpTtl, OtpTtl + 1} : now + d <= MaxTime /\ Tick(d)

DoSweep == UNCHANGED portal /\ SweepExpired

Next ==
    \/ DoSignup \/ DoOtpSent \/ DoVerifyOtp \/ DoLogin \/ DoLogout
    \/ DoCreatePaper \/ DoReadPaper \/ DoCreateReview \/ DoCreateDecision
    \/ DoReadDecision \/ DoReadReview \/ DoTick \/ DoSweep

Spec == Init /\ [][Next]_vars

-----------------------------------------------------------------------------
(* The document flows, from a state in which four accounts have signed up *)
(* and verified their address, each signup's callback has run, each        *)
(* account has logged in on its own session, and alice has submitted one   *)
(* paper naming colab as collaborator and rev and dave as reviewers;       *)
(* dave@example.com has no account yet.  The state is built with the       *)
(* handlers' own operators.                                                *)

Cast == <<"alice@example.com", "colab@example.com", "rev@example.com", "mallory@example.com">>

CastSession == <<"s1", "s2", "s3", "s4">>

CastPassword == "StrongPass!234"

CastCode == "482913"

Newcomer == "dave@example.com"

enrolDB(db, email, n) ==
    verifyOtpDB(
        logEvent(signupDB(db, email, CastPassword, RoleFor[email], CastCode, n),
                 [event |-> "otp_sent", email |-> email, sent |-> TRUE]),
        email, CastCode)

RECURSIVE enrolAll(_, _)
enrolAll(db, n) ==
    IF n > Len(Cast) THEN db ELSE enrolAll(enrolDB(db, Cast[n], n), n + 1)

RECURSIVE loginAll(_, _)
loginAll(db, n) ==
    IF n > Len(Cast) THEN db ELSE loginAll(loginSuccessDB(db, Cast[n]), n + 1)

firstPaperDB(db, pid) ==
    createPaperDB(db, pid, sessionUser(db.users[Cast[1]]), "Test Paper", "aGVsbG8=",
                  <<Cast[2]>>, <<Cast[3], Newcomer>>)

InitPapers ==
    /\ now = 0
    /\ disk = firstPaperDB(loginAll(enrolAll(EmptyDB, 1), 1), Len(Cast) + 1)
    /\ pending = {}
    /\ session = [s \in Sessions |->
           LET n == CHOOSE i \in DOMAIN CastSession : CastSession[i] = s
           IN  sessionUser(disk.users[Cast[n]])]
    /\ privateKeyStore = [s \in Sessions |->
           LET n == CHOOSE i \in DOMAIN CastSession : CastSession[i] = s
           IN  [privateKeyPem |-> unlockPrivateKey(disk.users[Cast[n]], CastPassword),
                expiresAt |-> now + KeyTtl]]
    /\ nextId = Len(Cast) + 2
    /\ otpHist = [e \in Emails |->
           IF e \in Range(Cast) THEN [NoHist EXCEPT !.ok = 1, !.code = CastCode] ELSE NoHist]
    /\ resp = [op |-> "none", status |-> 0, error |-> ""]
    /\ portal = NoPortal

InitLogs == 4 * Len(Cast) + 1

PaperBudget == Len(disk.logs) < InitLogs + MaxPaperLogs

PSignup == UNCHANGED portal /\ PaperBudget /\ Signup(Newcomer, CastPassword, "Reviewer", CastCode)

POtpSent == UNCHANGED portal /\ PaperBudget /\ \E cb \in pending : OtpSentCallback(cb, TRUE)

PVerifyOtp == UNCHANGED portal /\ PaperBudget /\ VerifyOtp(Newcomer, CastCode)

PLogin == UNCHANGED portal /\ PaperBudget /\ \E e \in {Cast[4], Newcomer} : Login(CastSession[4], e, CastPassword)

PCreatePaper ==
    /\ UNCHANGED portal
    /\ PaperBudget
    /\ \E s \in {CastSession[1], CastSession[2]}, f \in {"aGVsbG8"},
          c \in {<<>>, <<Cast[2]>>}, r \in {<<Newcomer>>} :
          CreatePaper(s, "Test Paper", f, c, r)

PReadPaper == UNCHANGED portal /\ PaperBudget /\ \E s \in Sessions, pid \in DOMAIN disk.papers : ReadPaper(s, pid)

PCreateReview ==
    UNCHANGED portal /\ PaperBudget /\ \E s \in Sessions, pid \in DOMAIN disk.papers : CreateReview(s, pid, "cmV2aWV3")

PCreateDecision ==
    UNCHANGED portal /\ PaperBudget /\ \E s \in Sessions, pid \in DOMAIN disk.papers : CreateDecision(s, pid, "Accept")

PReadDecision == UNCHANGED portal /\ PaperBudget /\ \E s \in Sessions, pid \in DOMAIN disk.papers : ReadDecision(s, pid)

PReadReview == UNCHANGED portal /\ PaperBudget /\ \E s \in Sessions, rid \in DOMAIN disk.reviews : ReadReview(s, rid)

PReadLogs == UNCHANGED portal /\ PaperBudget /\ \E s \in Sessions : ReadLogs(s)

NextPapers ==
    \/ PSignup \/ POtpSent \/ PVerifyOtp \/ PLogin
    \/ PCreatePaper \/ PReadPaper \/ PCreateReview \/ PCreateDecision
    \/ PReadDecision \/ PReadReview \/ PReadLogs

SpecPapers == InitPapers /\ [][NextPapers]_vars

-----------------------------------------------------------------------------
(* The OTP subsystem alone: signup, verification, the deferred callback    *)
(* and the clock.                                                          *)

OtpEmails == {"alice@example.com"}

OtpSignup ==
    /\ UNCHANGED portal
    /\ Len(disk.logs) < MaxOtpLogs
    /\ \E e \in OtpEmails, c \in OtpCodes : Signup(e, "StrongPass!234", "Author", c)

OtpVerify ==
    /\ UNCHANGED portal
    /\ Len(disk.logs) < MaxOtpLogs
    /\ \E e \in OtpEmails, c \in OtpCodes : VerifyOtp(e, c)

OtpCallback ==
    /\ UNCHANGED portal
    /\ Len(disk.logs) < MaxOtpLogs
    /\ \E cb \in pending : OtpSentCallback(cb, TRUE)

OtpTick == UNCHANGED portal /\ \E d \in {OtpTtl, OtpTtl + 1} : now + d <= MaxOtpTime /\ Tick(d)

NextOtp == OtpSignup \/ OtpVerify \/ OtpCallback \/ OtpTick

SpecOtp == Init /\ [][NextOtp]_vars

-----------------------------------------------------------------------------
(* Key custody over time: from the state of InitPapers after dave has      *)
(* signed up, verified and logged in on the fourth session in mallory's    *)
(* place (every handle bound at time 0), with the clock passing the        *)
(* two-hour lifetime of the handles, a login that binds a new handle,      *)
(* logouts and the sweep.  alice's session never issues a request.         *)

MaxKeyTime == 242
MaxKeyLogs == 2

KeyCast == [CastSession EXCEPT ![4] = "s4"]

KeyUser == [Cast EXCEPT ![4] = Newcomer]

InitKeys ==
    /\ now = 0
    /\ disk = loginSuccessDB(
                  enrolDB(firstPaperDB(loginAll(enrolAll(EmptyDB, 1), 1), Len(Cast) + 1),
                          Newcomer, Len(Cast) + 2),
                  Newcomer)
    /\ pending = {}
    /\ session = [s \in Sessions |->
           LET n == CHOOSE i \in DOMAIN KeyCast : KeyCast[i] = s
           IN  sessionUser(disk.users[KeyUser[n]])]
    /\ privateKeyStore = [s \in Sessions |->
           LET n == CHOOSE i \in DOMAIN KeyCast : KeyCast[i] = s
           IN  [privateKeyPem |-> unlockPrivateKey(disk.users[KeyUser[n]], CastPassword),
                expiresAt |-> now + KeyTtl]]
    /\ nextId = Len(Cast) + 3
    /\ otpHist = [e \in Emails |->
           IF e \in Range(KeyUser) \cup Range(Cast)
           THEN [NoHist EXCEPT !.ok = 1, !.code = CastCode] ELSE NoHist]
    /\ resp = [op |-> "none", status |-> 0, error |-> ""]
    /\ portal = NoPortal

KeyBudget == Len(disk.logs) < InitLogs + 4 + MaxKeyLogs

KTick == UNCHANGED portal /\ \E d \in {KeyTtl, KeyTtl + 1} : now + d <= MaxKeyTime /\ Tick(d)

KSweep == UNCHANGED portal /\ SweepExpired

KLogin == UNCHANGED portal /\ KeyBudget /\ Login(KeyCast[2], KeyUser[2], CastPassword)

KLogout == UNCHANGED portal /\ KeyBudget /\ \E d \in BOOLEAN : Logout(KeyCast[2], d)

KReadPaper ==
    /\ UNCHANGED portal
    /\ KeyBudget
    /\ \E s \in {KeyCast[2], KeyCast[4]}, pid \in DOMAIN disk.papers : ReadPaper(s, pid)

KCreateReview ==
    /\ UNCHANGED portal
    /\ KeyBudget
    /\ \E pid \in DOMAIN disk.papers : CreateReview(KeyCast[3], pid, "cmV2aWV3")

KReadReview ==
    UNCHANGED portal /\ KeyBudget /\ \E rid \in DOMAIN disk.reviews : ReadReview(KeyCast[2], rid)

KCreateDecision ==
    /\ UNCHANGED portal
    /\ KeyBudget
    /\ \E pid \in DOMAIN disk.papers : CreateDecision(KeyCast[2], pid, "Accept")

NextKeys ==
    \/ KTick \/ KSweep \/ KLogin \/ KLogout
    \/ KReadPaper \/ KCreateReview \/ KReadReview \/ KCreateDecision

SpecKeys == InitKeys /\ [][NextKeys]_vars

(* The sweep timer keeps firing.                                           *)
SpecKeysFair == SpecKeys /\ WF_vars(KSweep)

-----------------------------------------------------------------------------
(* Decisions: from the state in which alice and colab have signed up and   *)
(* logged in while the otp_sent callbacks of both signups are still        *)
(* waiting for the mail to be sent.                                        *)

MaxDecisionLogs == 3
MaxDecisionTime == 1

DecisionTexts == {"Accept", "Reject"}

firstSignupDB == signupDB(EmptyDB, Cast[1], CastPassword, RoleFor[Cast[1]], CastCode, 1)

secondSignupDB == signupDB(firstSignupDB, Cast[2], CastPassword, RoleFor[Cast[2]], CastCode, 2)

InitDecisions ==
    /\ now = 0
    /\ disk = loginSuccessDB(loginSuccessDB(secondSignupDB, Cast[1]), Cast[2])
    /\ pending = {[db |-> firstSignupDB, email |-> Cast[1]],
                  [db |-> secondSignupDB, email |-> Cast[2]]}
    /\ session = [s \in Sessions |->
           IF s = CastSession[1] THEN sessionUser(disk.users[Cast[1]])
           ELSE IF s = CastSession[2] THEN sessionUser(disk.users[Cast[2]])
           ELSE Null]
    /\ privateKeyStore = [s \in Sessions |->
           IF s = CastSession[1]
           THEN [privateKeyPem |-> unlockPrivateKey(disk.users[Cast[1]], CastPassword),
                 expiresAt |-> now + KeyTtl]
           ELSE IF s = CastSession[2]
           THEN [privateKeyPem |-> unlockPrivateKey(disk.users[Cast[2]], CastPassword),
                 expiresAt |-> now + KeyTtl]
           ELSE Null]
    /\ nextId = 3
    /\ otpHist = [e \in Emails |->
           IF e \in {Cast[1], Cast[2]} THEN [NoHist EXCEPT !.code = CastCode] ELSE NoHist]
    /\ resp = [op |-> "none", status |-> 0, error |-> ""]
    /\ portal = NoPortal

DecisionBudget == Len(disk.logs) < Len(secondSignupDB.logs) + 2 + MaxDecisionLogs

DOtpSent == UNCHANGED portal /\ DecisionBudget /\ \E cb \in pending : OtpSentCallback(cb, TRUE)

DSignup ==
    UNCHANGED portal /\ DecisionBudget /\ Signup(Cast[2], CastPassword, RoleFor[Cast[2]], CastCode)

DCreatePaper ==
    /\ UNCHANGED portal
    /\ DecisionBudget
    /\ CreatePaper(CastSession[1], "Test Paper", "aGVsbG8=", <<Cast[2]>>, <<>>)

DCreateDecision ==
    /\ UNCHANGED portal
    /\ DecisionBudget
    /\ \E pid \in DOMAIN disk.papers, text \in DecisionTexts :
          CreateDecision(CastSession[2], pid, text)

DReadDecision ==
    /\ UNCHANGED portal
    /\ DecisionBudget
    /\ \E s \in {CastSession[1], CastSession[2]}, pid \in DOMAIN disk.papers :
          ReadDecision(s, pid)

DTick == UNCHANGED portal /\ now + 1 <= MaxDecisionTime /\ Tick(1)

NextDecisions ==
    \/ DOtpSent \/ DSignup \/ DCreatePaper \/ DCreateDecision \/ DReadDecision \/ DTick

SpecDecisions == InitDecisions /\ [][NextDecisions]_vars

-----------------------------------------------------------------------------
(* Signup requests of every shape, and the deferred callback.              *)

MaxSignupLogs == 3

SSignup ==
    /\ UNCHANGED portal
    /\ Len(disk.logs) < MaxSignupLogs
    /\ \E e \in {"alice@example.com", "colab@example.com", ""},
          p \in DOMAIN PasswordShape \cup {""},
          r \in {"Author", "Reviewer", "Editor", ""} :
          Signup(e, p, r, "482913")

SOtpSent ==
    UNCHANGED portal /\ Len(disk.logs) < MaxSignupLogs /\ \E cb \in pending : OtpSentCallback(cb, TRUE)

NextSignup == SSignup \/ SOtpSent

SpecSignup == Init /\ [][NextSignup]_vars

-----------------------------------------------------------------------------
(* Password attempts on one account, the deferred callback of its signup   *)
(* and the clock.                                                          *)

MaxLoginLogs == 7
MaxLoginTime == 16

LoginBudget == Len(disk.logs) < MaxLoginLogs

LSignup ==
    UNCHANGED portal /\ LoginBudget /\ Signup("alice@example.com", "StrongPass!234", "Author", "482913")

LOtpSent == UNCHANGED portal /\ LoginBudget /\ \E cb \in pending : OtpSentCallback(cb, TRUE)

LLogin ==
    /\ UNCHANGED portal
    /\ LoginBudget
    /\ \E p \in {"StrongPass!234", "OtherPass#5678"} : Login("s1", "alice@example.com", p)

LTick ==
    UNCHANGED portal /\ \E d \in {LockoutPeriod - 1, LockoutPeriod} : now + d <= MaxLoginTime /\ Tick(d)

NextLogin == LSignup \/ LOtpSent \/ LLogin \/ LTick

SpecLogin == Init /\ [][NextLogin]_vars

-----------------------------------------------------------------------------
(* Reads of a paper whose stored payload was rewritten in data.json by     *)
(* something other than the server, from the set-up state of SpecPapers.   *)

MaxTamperLogs == 2

sealedAt(paper) ==
    aesEncrypt(paper.versions[Len(paper.versions)].hash.of, generateAESKey(paper.id))

(* Stored values for one field of enc: the one written at sealing time,    *)
(* another spelling of it, and other bytes of the same length.             *)
StoredForms(paper, field) ==
    IF field = "ciphertext"
    THEN {sealedAt(paper).ciphertext, respell(sealedAt(paper).ciphertext), Buffer("hellp")}
    ELSE {sealedAt(paper).tag, respell(sealedAt(paper).tag),
          gcmTag(generateAESKey(0), sealedAt(paper).ciphertext)}

Rewrite(pid, field, value) ==
    /\ disk' = [disk EXCEPT
                   !.papers[pid].versions[Len(disk.papers[pid].versions)].enc[field] = value]
    /\ UNCHANGED <<pending, session, privateKeyStore, now, nextId, otpHist, resp, portal>>

TRewrite ==
    \E pid \in DOMAIN disk.papers, field \in {"ciphertext", "tag"} :
        \E value \in StoredForms(disk.papers[pid], field) : Rewrite(pid, field, value)

TReadPaper ==
    /\ UNCHANGED portal
    /\ Len(disk.logs) < InitLogs + MaxTamperLogs
    /\ \E s \in Sessions, pid \in DOMAIN disk.papers : ReadPaper(s, pid)

NextTamper == TRewrite \/ TReadPaper

SpecTamper == InitPapers /\ [][NextTamper]_vars

-----------------------------------------------------------------------------
(* Reads of papers and reviews whose stored payload may have been          *)
(* rewritten, interleaved with review submission, from the set-up state of *)
(* SpecPapers.                                                             *)

MaxReadLogs == 3

ReadSessions == {"s1", "s2"}

sealedReview(review) == aesEncrypt(review.hash.of, generateAESKey(review.id))

TagForms(sealed) == {sealed.tag, gcmTag(generateAESKey(0), sealed.ciphertext)}

RewriteReview(rid, field, value) ==
    /\ disk' = [disk EXCEPT !.reviews[rid].enc[field] = value]
    /\ UNCHANGED <<pending, session, privateKeyStore, now, nextId, otpHist, resp, portal>>

ReadBudget == Len(disk.logs) < InitLogs + MaxReadLogs

RRewritePaper ==
    \E pid \in DOMAIN disk.papers :
        \E value \in TagForms(sealedAt(disk.papers[pid])) : Rewrite(pid, "tag", value)

RRewriteReview ==
    \E rid \in DOMAIN disk.reviews :
        \E value \in TagForms(sealedReview(disk.reviews[rid])) : RewriteReview(rid, "tag", value)

RCreateReview ==
    /\ UNCHANGED portal
    /\ ReadBudget
    /\ DOMAIN disk.reviews = {}
    /\ \E pid \in DOMAIN disk.papers : CreateReview("s3", pid, "cmV2aWV3")

RReadPaper ==
    UNCHANGED portal /\ ReadBudget /\ \E s \in ReadSessions, pid \in DOMAIN disk.papers : ReadPaper(s, pid)

RReadReview ==
    UNCHANGED portal /\ ReadBudget /\ \E s \in ReadSessions, rid \in DOMAIN disk.reviews : ReadReview(s, rid)

NextReads == RRewritePaper \/ RRewriteReview \/ RCreateReview \/ RReadPaper \/ RReadReview

SpecReads == InitPapers /\ [][NextReads]_vars

-----------------------------------------------------------------------------
(* Logins and logouts on one session by several accounts, one of whose     *)
(* stored encrypted private key may have been rewritten in data.json, from *)
(* the set-up state of SpecPapers.                                         *)

MaxBindLogs == 6

BindSession == "s1"

sealedPrivateKey(user) ==
    encryptPrivateKey(generateRSAKeyPair(user.rsaPrivSalt).privateKey, CastPassword, user.rsaPrivSalt)

RewriteUserKey(email, value) ==
    /\ disk' = [disk EXCEPT !.users[email].rsaPrivateKeyEncrypted.tag = value]
    /\ UNCHANGED <<pending, session, privateKeyStore, now, nextId, otpHist, resp, portal>>

BindBudget == Len(disk.logs) < InitLogs + MaxBindLogs

BRewriteUserKey ==
    \E value \in TagForms(sealedPrivateKey(disk.users[Cast[1]])) : RewriteUserKey(Cast[1], value)

BLogin ==
    /\ UNCHANGED portal
    /\ BindBudget
    /\ \/ \E e \in {Cast[1], Cast[2], Newcomer} : Login(BindSession, e, CastPassword)
       \/ Login(BindSession, Cast[2], "OtherPass#5678")

BLogout == UNCHANGED portal /\ BindBudget /\ Logout(BindSession, TRUE)

NextBind == BRewriteUserKey \/ BLogin \/ BLogout

SpecBind == InitPapers /\ [][NextBind]_vars

-----------------------------------------------------------------------------
(* src/research-portal, controllers/decisionController.js: makeDecision    *)
(* and verifyDecisionSignature over the Decision collection.  A summary    *)
(* string is described by its body and the blanks before and after it; the *)
(* clock is in milliseconds and may advance between the two new Date()     *)
(* calls of makeDecision.  Whether the crypto library accepts the padding   *)
(* option that signData and verifySignature pass is fixed per run.         *)

MinSummaryLength == 50
MaxPortalClock == 2

PortalPapers == {"p1"}

PaperStatuses == {"SUBMITTED", "UNDER_REVIEW", "ACCEPTED", "REJECTED", "REVISION_REQUESTED"}

submittedPaper(authorId) ==
    [authorId |-> authorId, assignedReviewers |-> {}, status |-> "SUBMITTED",
     finalDecision |-> ""]

bodyLength == [b \in {"The methodology is sound", "ok"} |->
                  IF b = "ok" THEN 2 ELSE 60]

Summaries ==
    [lead : {0, 1}, body : DOMAIN bodyLength, trail : {0, 1}]

summaryLength(summary) == summary.lead + bodyLength[summary.body] + summary.trail

trim(summary) == [summary EXCEPT !.lead = 0, !.trail = 0]

toISOString(date) == [iso |-> date]

(* JSON.stringify({ paperId, decision, summary, decidedAt })               *)
serializeDecision(paperId, decision, summary, decidedAt) ==
    [paperId |-> paperId, decision |-> decision, summary |-> summary, decidedAt |-> decidedAt]

signData(data) ==
    IF portal.pssAccepted THEN [kind |-> "rsa-pss", over |-> data] ELSE Failed

verifySignature(data, signature) ==
    IF portal.pssAccepted THEN signature.over = data ELSE FALSE

decisionData(paperId, decision, summary) ==
    [paperId |-> paperId, decision |-> decision, summary |-> trim(summary),
     decidedAt |-> portal.clock]

makeDecisionError(paperId, decision, summary) ==
    IF decision = "" \/ summary = Null THEN "Decision and summary required"
    ELSE IF decision \notin {"ACCEPTED", "REJECTED", "REVISION_REQUESTED"}
    THEN "Invalid decision type"
    ELSE IF summaryLength(summary) < MinSummaryLength
    THEN "Summary must be at least 50 characters"
    ELSE IF ~Has(portal.papers, paperId) THEN "Paper not found"
    ELSE ""

makeDecision(paperId, decision, summary, lag) ==
    LET err       == makeDecisionError(paperId, decision, summary)
        signedAt  == portal.clock + lag
        signature == signData(serializeDecision(paperId, decision, summary,
                                                toISOString(signedAt)))
        answer(status, error) ==
            [op |-> "make-decision", decisionId |-> paperId, status |-> status, error |-> error]
    IN  /\ UNCHANGED <<disk, pending, session, privateKeyStore, now, nextId, otpHist>>
        /\ IF err # ""
           THEN /\ resp' = answer(IF err = "Paper not found" THEN 404 ELSE 400, err)
                /\ UNCHANGED portal
           ELSE IF signature = Failed
           THEN /\ resp' = answer(500, "Failed to digitally sign decision")
                /\ portal' = [portal EXCEPT !.clock = signedAt]
           ELSE /\ portal' = [portal EXCEPT
                                 !.decisions = Put(@, paperId,
                                     [decisionData(paperId, decision, summary)
                                         EXCEPT !.decidedAt = portal.clock]
                                     @@ [signature |-> signature]),
                                 !.papers[paperId].status = decision,
                                 !.papers[paperId].finalDecision = paperId,
                                 !.clock = signedAt]
                /\ resp' = answer(201, "")

verifyDecisionSignature(decisionId) ==
    LET decision == portal.decisions[decisionId]
        dataToVerify == serializeDecision(decision.paperId, decision.decision,
                                          decision.summary, toISOString(decision.decidedAt))
    IN  /\ UNCHANGED <<disk, pending, session, privateKeyStore, now, nextId, otpHist, portal>>
        /\ IF ~Has(portal.decisions, decisionId)
           THEN resp' = [op |-> "verify-signature", decisionId |-> decisionId, status |-> 404,
                         error |-> "Decision not found"]
           ELSE resp' = [op |-> "verify-signature", decisionId |-> decisionId, status |-> 200,
                         error |-> "", dataToVerify |-> dataToVerify,
                         isSignatureValid |-> verifySignature(dataToVerify, decision.signature)]

InitPortal ==
    /\ disk = EmptyDB
    /\ pending = {}
    /\ session = [s \in Sessions |-> Null]
    /\ privateKeyStore = [s \in Sessions |-> Null]
    /\ now = 0
    /\ nextId = 1
    /\ otpHist = [e \in Emails |-> NoHist]
    /\ resp = [op |-> "none", status |-> 0, error |-> ""]
    /\ \E accepted \in BOOLEAN :
          portal = [NoPortal EXCEPT
                       !.pssAccepted = accepted,
                       !.papers = [p \in PortalPapers |-> submittedPaper(1)]]

PortalMakeDecision ==
    \E paperId \in PortalPapers \cup {"p9"},
       decision \in {"ACCEPTED", "REJECTED", "REVISION_REQUESTED", "MAYBE", ""},
       summary \in Summaries \cup {Null}, lag \in {0, 1} :
        /\ portal.clock + lag <= MaxPortalClock
        /\ makeDecision(paperId, decision, summary, lag)

PortalVerify == \E decisionId \in PortalPapers \cup {"p9"} : verifyDecisionSignature(decisionId)

PortalTick ==
    /\ portal.clock + 1 <= MaxPortalClock
    /\ portal' = [portal EXCEPT !.clock = @ + 1]
    /\ UNCHANGED <<disk, pending, session, privateKeyStore, now, nextId, otpHist, resp>>

NextPortal == PortalMakeDecision \/ PortalVerify \/ PortalTick

SpecPortal == InitPortal /\ [][NextPortal]_vars

-----------------------------------------------------------------------------
(* src/research-portal, controllers/authController.js and                  *)
(* middleware/authMiddleware.js: registration, the two login steps and     *)
(* the gate in front of the paper, review and decision routes.  Users are  *)
(* numbered from 1; userId 0 is an unset session.userId and otpCode "" is  *)
(* a null otpCode.  The clock never reaches the session timeout, so        *)
(* lastActivity is left out.  The unique indexes on username and email     *)
(* are those the notes in authMiddleware.js describe.                      *)

PortalOtpExpiry == 300000
MinPortalPasswordLength == 12
MaxAuthClock == 300001

ServerIdle == UNCHANGED <<disk, pending, session, privateKeyStore, now, nextId, otpHist>>

toLowerCase(s) ==
    CASE s = "Bob" -> "bob"
      [] s = "Bea@Uni.edu" -> "bea@uni.edu"
      [] OTHER -> s

PortalPasswordLength ==
    [p \in {"SecurePassword123!@#", "wrongpassword", "short"} |->
        CASE p = "SecurePassword123!@#" -> 20 [] p = "wrongpassword" -> 13 [] OTHER -> 5]

(* /^[a-zA-Z\s'-]{2,}$/i, /^[a-zA-Z0-9_-]+$/ with length >= 3, and the     *)
(* email pattern, on the strings used here.                                *)
fullNameOk(s) == s \in {"Test Author"}

usernameOk(s) == s \in {"ann", "Bob", "bob"}

emailOk(s) == s \in {"ann@uni.edu", "bob@uni.edu"}

sixDigits(otp) == otp \in {"111111", "222222"}

comparePassword(password, hash) == hash.of = password

findUser(name) ==
    LET ids == {id \in DOMAIN portal.users :
                   portal.users[id].email = name \/ portal.users[id].username = name}
    IN  IF ids = {} THEN 0 ELSE CHOOSE id \in ids : TRUE

existingUser(email, username) ==
    \E id \in DOMAIN portal.users :
        portal.users[id].email = email \/ portal.users[id].username = username

registerError(body) ==
    IF body.fullName = "" \/ body.username = "" \/ body.email = "" \/ body.password = ""
       \/ body.role = ""
    THEN [status |-> 400, error |-> "Missing required fields"]
    ELSE IF ~fullNameOk(body.fullName) THEN [status |-> 400, error |-> "Invalid full name"]
    ELSE IF ~usernameOk(body.username)
    THEN [status |-> 400, error |-> "Username must be 3+ characters (alphanumeric, _, -)"]
    ELSE IF ~emailOk(body.email) THEN [status |-> 400, error |-> "Invalid email format"]
    ELSE IF PortalPasswordLength[body.password] < MinPortalPasswordLength
    THEN [status |-> 400, error |-> "Password must be at least 12 characters"]
    ELSE IF body.password # body.confirmPassword
    THEN [status |-> 400, error |-> "Passwords do not match"]
    ELSE IF body.role \notin {"Author", "Reviewer", "Editor"}
    THEN [status |-> 400, error |-> "Invalid role"]
    ELSE IF existingUser(body.email, body.username)
    THEN [status |-> 409, error |-> "Email or username already exists"]
    ELSE [status |-> 200, error |-> ""]

pendingOf(body, otp) ==
    [username |-> toLowerCase(body.username), email |-> toLowerCase(body.email),
     passwordHash |-> hashPassword(body.password), role |-> body.role,
     otpCode |-> otp, otpExpiry |-> portal.clock + PortalOtpExpiry]

authAnswer(op, c, status, error) ==
    [op |-> op, sid |-> c, status |-> status, error |-> error]

(* POST /api/auth/register                                                 *)
register(c, body, otp) ==
    /\ ServerIdle
    /\ resp' = authAnswer("register", c, registerError(body).status, registerError(body).error)
    /\ IF registerError(body).status # 200
       THEN UNCHANGED portal
       ELSE portal' = [portal EXCEPT !.sessions[c].pendingRegistration = pendingOf(body, otp)]

(* createSession(req, userId, false)                                       *)
createSession(sess, userId, mfaVerified) ==
    [sess EXCEPT !.userId = userId, !.mfaVerified = mfaVerified]

(* POST /api/auth/login (step 1)                                           *)
login(c, username, password, otp, emailSent) ==
    LET id     == findUser(toLowerCase(username))
        user   == portal.users[id]
        issued == [portal EXCEPT !.users[id].otpCode = otp,
                                 !.users[id].otpExpiry = portal.clock + PortalOtpExpiry]
        answer(status, error) ==
            authAnswer("login", c, status, error)
                @@ [username |-> username, password |-> password]
    IN  /\ ServerIdle
        /\ IF username = "" \/ password = ""
           THEN resp' = answer(400, "Username and password required") /\ UNCHANGED portal
           ELSE IF id = 0
           THEN resp' = answer(401, "Invalid credentials") /\ UNCHANGED portal
           ELSE IF ~comparePassword(password, user.passwordHash)
           THEN resp' = answer(401, "Invalid credentials") /\ UNCHANGED portal
           ELSE IF ~user.isActive
           THEN resp' = answer(403, "Account is inactive") /\ UNCHANGED portal
           ELSE IF ~emailSent
           THEN resp' = answer(500, "Failed to send OTP. Please try again.") /\ portal' = issued
           ELSE /\ resp' = answer(200, "")
                /\ portal' = [issued EXCEPT !.sessions[c] = createSession(@, id, FALSE)]

(* new Date() > otpExpiry                                                  *)
portalOtpNeverExpires(otpExpiry) == FALSE

portalOtpExpired(otpExpiry) == portal.clock > otpExpiry

newUser(reg) ==
    [username |-> reg.username, email |-> reg.email,
     passwordHash |-> reg.passwordHash, role |-> reg.role,
     isActive |-> TRUE, otpCode |-> "", otpExpiry |-> 0]

(* POST /api/auth/verify-otp (step 2, or the end of a registration)        *)
verifyOTP(c, otp) ==
    LET sess    == portal.sessions[c]
        reg     == sess.pendingRegistration
        user    == portal.users[sess.userId]
        answer(status, error) == authAnswer("verify-otp", c, status, error) @@ [otp |-> otp]
        quiet(status, error) == resp' = answer(status, error) /\ UNCHANGED portal
    IN  /\ ServerIdle
        /\ IF otp = "" THEN quiet(400, "OTP required")
           ELSE IF sess.userId = 0 /\ reg # Null
           THEN IF ~sixDigits(otp) THEN quiet(400, "OTP must be 6 digits")
                ELSE IF reg.otpCode # otp THEN quiet(401, "Invalid OTP")
                ELSE IF portalOtpExpired(reg.otpExpiry)
                THEN quiet(401, "OTP expired. Please register again.")
                ELSE IF existingUser(reg.email, reg.username)
                THEN quiet(500, "OTP verification failed")
                ELSE /\ resp' = answer(201, "")
                     /\ portal' = [portal EXCEPT
                            !.users = Put(@, portal.nextUser, newUser(reg)),
                            !.nextUser = @ + 1,
                            !.sessions[c] = [userId |-> portal.nextUser, mfaVerified |-> TRUE,
                                             pendingRegistration |-> Null]]
           ELSE IF sess.userId = 0 THEN quiet(401, "Please login first")
           ELSE IF ~sixDigits(otp) THEN quiet(400, "OTP must be 6 digits")
           ELSE IF ~Has(portal.users, sess.userId) THEN quiet(401, "User not found")
           ELSE IF user.otpCode # otp THEN quiet(401, "Invalid OTP")
           ELSE IF portalOtpExpired(user.otpExpiry)
           THEN quiet(401, "OTP expired. Please login again.")
           ELSE /\ resp' = answer(200, "")
                /\ portal' = [portal EXCEPT !.users[sess.userId].otpCode = "",
                                            !.users[sess.userId].otpExpiry = 0,
                                            !.sessions[c].mfaVerified = TRUE]

(* POST /api/auth/resend-otp                                               *)
resendOTP(c, otp, emailSent) ==
    LET sess == portal.sessions[c]
        answer(status, error) == authAnswer("resend-otp", c, status, error)
        sent == IF emailSent THEN answer(200, "") ELSE answer(500, "Failed to send OTP")
    IN  /\ ServerIdle
        /\ IF sess.userId = 0 /\ sess.pendingRegistration # Null
           THEN /\ resp' = sent
                /\ portal' = [portal EXCEPT
                       !.sessions[c].pendingRegistration.otpCode = otp,
                       !.sessions[c].pendingRegistration.otpExpiry = portal.clock + PortalOtpExpiry]
           ELSE IF sess.userId = 0
           THEN resp' = answer(401, "Please login first") /\ UNCHANGED portal
           ELSE IF ~Has(portal.users, sess.userId)
           THEN resp' = answer(401, "User not found") /\ UNCHANGED portal
           ELSE /\ resp' = sent
                /\ portal' = [portal EXCEPT
                       !.users[sess.userId].otpCode = otp,
                       !.users[sess.userId].otpExpiry = portal.clock + PortalOtpExpiry]

isAuthenticatedWithoutMfa(sess) == sess.userId # 0

isAuthenticated(sess) == sess.userId # 0 /\ sess.mfaVerified

(* refreshUserSession lets the request through when the user is active.    *)
userActive(sess) == Has(portal.users, sess.userId) /\ portal.users[sess.userId].isActive

(* POST /api/auth/logout                                                   *)
logout(c) ==
    /\ ServerIdle
    /\ IF ~isAuthenticated(portal.sessions[c])
       THEN /\ resp' = authAnswer("logout", c, 401, "Authentication required")
            /\ UNCHANGED portal
       ELSE /\ resp' = authAnswer("logout", c, 200, "")
            /\ portal' = [portal EXCEPT !.sessions[c] = NoSession]

(* The router of the paper, review and decision routes: router.use of      *)
(* checkSessionTimeout, isAuthenticated and refreshUserSession, then the   *)
(* route's handler.                                                        *)
protectedRoute(c, route) ==
    LET sess == portal.sessions[c]
        answer(status, error, ran) ==
            authAnswer(route, c, status, error) @@ [ran |-> ran, as |-> sess.userId]
    IN  /\ ServerIdle
        /\ IF ~isAuthenticated(sess)
           THEN resp' = answer(401, "Authentication required", FALSE) /\ UNCHANGED portal
           ELSE IF ~userActive(sess)
           THEN /\ resp' = answer(401, "User account no longer active", FALSE)
                /\ portal' = [portal EXCEPT !.sessions[c] = NoSession]
           ELSE resp' = answer(200, "", TRUE) /\ UNCHANGED portal

PortalEmail(username) == IF toLowerCase(username) = "ann" THEN "ann@uni.edu" ELSE "bob@uni.edu"

goodBody(username, role) ==
    [fullName |-> "Test Author", username |-> username, email |-> PortalEmail(username),
     password |-> "SecurePassword123!@#", confirmPassword |-> "SecurePassword123!@#",
     role |-> role]

RegisterBodies ==
    {goodBody("ann", "Author"), goodBody("Bob", "Editor"),
     [goodBody("ann", "Author") EXCEPT !.fullName = ""],
     [goodBody("ann", "Author") EXCEPT !.username = "a!"],
     [goodBody("ann", "Author") EXCEPT !.password = "short", !.confirmPassword = "short"],
     [goodBody("ann", "Author") EXCEPT !.confirmPassword = "wrongpassword"],
     [goodBody("ann", "Author") EXCEPT !.role = "Admin"]}

PortalOtps == {"111111", "222222"}

(* The editor's account exists from the start; the author registers in    *)
(* the first browser session.                                             *)
seededEditor ==
    newUser([username |-> "bob", email |-> "bob@uni.edu",
             passwordHash |-> hashPassword("SecurePassword123!@#"), role |-> "Editor"])

RegisterSessions == {"c1"}

InitAuth ==
    /\ disk = EmptyDB
    /\ pending = {}
    /\ session = [s \in Sessions |-> Null]
    /\ privateKeyStore = [s \in Sessions |-> Null]
    /\ now = 0
    /\ nextId = 1
    /\ otpHist = [e \in Emails |-> NoHist]
    /\ resp = [op |-> "none", status |-> 0, error |-> ""]
    /\ portal = [NoPortal EXCEPT !.users = Put(@, 1, seededEditor), !.nextUser = 2]

AuthRegister ==
    \E c \in RegisterSessions, body \in RegisterBodies, otp \in {"111111"} :
        register(c, body, otp)

AuthLogin ==
    \E c \in PortalSessions, username \in {"ann", "Bob", "nonexistent", ""},
       password \in {"SecurePassword123!@#", "wrongpassword"},
       otp \in {"222222"}, emailSent \in BOOLEAN :
        login(c, username, password, otp, emailSent)

AuthVerifyOTP ==
    \E c \in PortalSessions, otp \in PortalOtps \cup {"12345", ""} : verifyOTP(c, otp)

AuthResendOTP ==
    \E c \in PortalSessions, otp \in PortalOtps, emailSent \in BOOLEAN :
        resendOTP(c, otp, emailSent)

AuthLogout == \E c \in PortalSessions : logout(c)

AuthRoute ==
    \E c \in PortalSessions, route \in {"papers", "reviews", "decision"} :
        protectedRoute(c, route)

AuthTick ==
    /\ \E d \in {PortalOtpExpiry, PortalOtpExpiry + 1} :
          /\ portal.clock + d <= MaxAuthClock
          /\ portal' = [portal EXCEPT !.clock = @ + d]
    /\ ServerIdle
    /\ UNCHANGED resp

NextAuth ==
    \/ AuthRegister \/ AuthLogin \/ AuthVerifyOTP \/ AuthResendOTP
    \/ AuthLogout \/ AuthRoute \/ AuthTick

SpecAuth == InitAuth /\ [][NextAuth]_vars

-----------------------------------------------------------------------------
(* src/research-portal, controllers/paperController.js: GET /papers for a *)
(* session that has passed the gate above.  A paper is its authorId and   *)
(* assignedReviewers; a PaperAccess record is [paperId, userId,           *)
(* accessLevel, status].  The answer is modelled as the set of paper ids  *)
(* it lists (the code also sorts them by submission time).                *)

ListUsers ==
    (1 :> [role |-> "Author"]) @@ (2 :> [role |-> "Author"])
    @@ (3 :> [role |-> "Reviewer"]) @@ (4 :> [role |-> "Editor"])

ListPaperIds == {"p1", "p2"}

AccessRecords ==
    {[paperId |-> "p1", userId |-> 2, accessLevel |-> "editor", status |-> "ACTIVE"],
     [paperId |-> "p2", userId |-> 2, accessLevel |-> "editor", status |-> "REVOKED"],
     [paperId |-> "p1", userId |-> 3, accessLevel |-> "reviewer", status |-> "ACTIVE"],
     [paperId |-> "p2", userId |-> 3, accessLevel |-> "reviewer", status |-> "ACTIVE"],
     [paperId |-> "p2", userId |-> 4, accessLevel |-> "editor", status |-> "ACTIVE"]}

(* PaperAccess.find({userId, accessLevel: 'editor', status: 'ACTIVE'})    *)
editorAccessPaperIds(userId) ==
    {a.paperId : a \in {r \in portal.access :
                           /\ r.userId = userId
                           /\ r.accessLevel = "editor"
                           /\ r.status = "ACTIVE"}}

listPapersFound(userId, role) ==
    LET all   == DOMAIN portal.papers
        found == CASE role = "Author" -> {p \in all : portal.papers[p].authorId = userId}
                   [] role = "Reviewer" -> all
                   [] role = "Editor" -> all \cap editorAccessPaperIds(userId)
                   [] OTHER -> all
        accessPapers ==
            IF role = "Author"
            THEN {p \in all \cap editorAccessPaperIds(userId) :
                      portal.papers[p].authorId # userId}
            ELSE {}
    IN  found \cup accessPapers

(* GET /api/papers                                                         *)
listPapers(userId) ==
    /\ ServerIdle
    /\ UNCHANGED portal
    /\ resp' = [op |-> "list", status |-> 200, error |-> "", as |-> userId,
                role |-> ListUsers[userId].role,
                papers |-> listPapersFound(userId, ListUsers[userId].role)]

(* submitPaper stores an owner record with the paper.                      *)
ownerAccess(p, authorId) ==
    [paperId |-> p, userId |-> authorId, accessLevel |-> "owner", status |-> "ACTIVE"]

(* What the handlers that write PaperAccess leave behind: no grant to the *)
(* paper's own author (grantEditorAccess), and a record for every         *)
(* assigned reviewer (updatePaperStatus).                                  *)
accessConsistent(authors, reviewers, access) ==
    /\ \A a \in access : a.userId # authors[a.paperId]
    /\ \A p \in ListPaperIds : \A r \in reviewers[p] :
          \E a \in access : a.paperId = p /\ a.userId = r

InitList ==
    /\ disk = EmptyDB
    /\ pending = {}
    /\ session = [s \in Sessions |-> Null]
    /\ privateKeyStore = [s \in Sessions |-> Null]
    /\ now = 0
    /\ nextId = 1
    /\ otpHist = [e \in Emails |-> NoHist]
    /\ resp = [op |-> "none", status |-> 0, error |-> ""]
    /\ \E authors \in [ListPaperIds -> {1, 2}], reviewers \in [ListPaperIds -> SUBSET {3}],
          access \in SUBSET AccessRecords :
            /\ accessConsistent(authors, reviewers, access)
            /\ portal = [NoPortal EXCEPT
                  !.papers = [p \in ListPaperIds |->
                                [authorId |-> authors[p],
                                 assignedReviewers |-> reviewers[p]]],
                  !.access = access \cup {ownerAccess(p, authors[p]) : p \in ListPaperIds}]

ListPapers == \E userId \in DOMAIN ListUsers : listPapers(userId)

NextList == ListPapers

SpecList == InitList /\ [][NextList]_vars

-----------------------------------------------------------------------------
(* src/research-portal, middleware/authMiddleware.js checkSessionTimeout   *)
(* in front of the API routes, next to the page routes of server.js that   *)
(* read the same session.  Here a session record carries lastActivity; 0   *)
(* is an unset (falsy) lastActivity, and the clock starts at 1.  The       *)
(* session store is taken to keep every session it was given.              *)

SessionTimeout == 3600000
MaxTimeoutClock == 7200003

(* req.session.lastActivity || now                                         *)
lastActivityOr(sess, fallback) == IF sess.lastActivity = 0 THEN fallback ELSE sess.lastActivity

sessionExpired(sess) == portal.clock - lastActivityOr(sess, portal.clock) > SessionTimeout

(* What express-session hands out after req.session.destroy().            *)
FreshSession == NoSession @@ [lastActivity |-> 0]

timedAnswer(op, c, status, error, ran) ==
    [op |-> op, sid |-> c, status |-> status, error |-> error, ran |-> ran]

(* checkSessionTimeout, isAuthenticated, refreshUserSession, then the      *)
(* handler of a paper, review or decision route.                           *)
timedRoute(c, route) ==
    LET sess   == portal.sessions[c]
        active == [sess EXCEPT !.lastActivity = portal.clock]
    IN  /\ ServerIdle
        /\ IF sessionExpired(sess)
           THEN /\ resp' = timedAnswer(route, c, 401, "Session expired. Please login again.",
                                      FALSE)
                /\ portal' = [portal EXCEPT !.sessions[c] = FreshSession]
           ELSE IF ~isAuthenticated(active)
           THEN /\ resp' = timedAnswer(route, c, 401, "Authentication required", FALSE)
                /\ portal' = [portal EXCEPT !.sessions[c] = active]
           ELSE IF ~userActive(active)
           THEN /\ resp' = timedAnswer(route, c, 401, "User account no longer active", FALSE)
                /\ portal' = [portal EXCEPT !.sessions[c] = FreshSession]
           ELSE /\ resp' = timedAnswer(route, c, 200, "", TRUE)
                /\ portal' = [portal EXCEPT !.sessions[c] = active]

(* POST /api/auth/logout: checkSessionTimeout, isAuthenticated, logout.    *)
timedLogout(c) ==
    LET sess   == portal.sessions[c]
        active == [sess EXCEPT !.lastActivity = portal.clock]
    IN  /\ ServerIdle
        /\ IF sessionExpired(sess)
           THEN /\ resp' = timedAnswer("logout", c, 401, "Session expired. Please login again.",
                                      FALSE)
                /\ portal' = [portal EXCEPT !.sessions[c] = FreshSession]
           ELSE IF ~isAuthenticated(active)
           THEN /\ resp' = timedAnswer("logout", c, 401, "Authentication required", FALSE)
                /\ portal' = [portal EXCEPT !.sessions[c] = active]
           ELSE /\ resp' = timedAnswer("logout", c, 200, "", TRUE)
                /\ portal' = [portal EXCEPT !.sessions[c] = FreshSession]

(* server.js: GET /dashboard and GET /papers (pages).                      *)
pageRequest(c, page) ==
    LET sess == portal.sessions[c]
    IN  /\ ServerIdle
        /\ UNCHANGED portal
        /\ IF sess.userId = 0 \/ ~sess.mfaVerified
           THEN resp' = timedAnswer(page, c, 302, "/login", FALSE)
           ELSE resp' = timedAnswer(page, c, 200, "", TRUE)

(* Two browser sessions: one signed in as the editor (both login steps    *)
(* done at clock 1), one that has not sent a request yet.                  *)
InitTimeout ==
    /\ disk = EmptyDB
    /\ pending = {}
    /\ session = [s \in Sessions |-> Null]
    /\ privateKeyStore = [s \in Sessions |-> Null]
    /\ now = 0
    /\ nextId = 1
    /\ otpHist = [e \in Emails |-> NoHist]
    /\ resp = [op |-> "none", status |-> 0, error |-> ""]
    /\ portal = [NoPortal EXCEPT
                    !.clock = 1,
                    !.users = Put(@, 1, seededEditor),
                    !.nextUser = 2,
                    !.sessions = [c \in PortalSessions |->
                        IF c = "c1"
                        THEN [createSession(FreshSession, 1, TRUE) EXCEPT !.lastActivity = 1]
                        ELSE FreshSession]]

TimedRoute ==
    \E c \in PortalSessions, route \in {"papers", "reviews", "decision"} : timedRoute(c, route)

TimedLogout == \E c \in PortalSessions : timedLogout(c)

PageRequest == \E c \in PortalSessions, page \in {"dashboard-page", "papers-page"} :
    pageRequest(c, page)

TimeoutTick ==
    /\ \E d \in {SessionTimeout, SessionTimeout + 1} :
          /\ portal.clock + d <= MaxTimeoutClock
          /\ portal' = [portal EXCEPT !.clock = @ + d]
    /\ ServerIdle
    /\ UNCHANGED resp

NextTimeout == TimedRoute \/ TimedLogout \/ PageRequest \/ TimeoutTick

SpecTimeout == InitTimeout /\ [][NextTimeout]_vars

-----------------------------------------------------------------------------
(* src/research-portal: the handlers that write PaperAccess records       *)
(* (grantEditorAccess, revokeEditorAccess, updatePaperStatus) and the      *)
(* canAccessPaper middleware that reads them.  PaperAccess has a unique   *)
(* index on (paperId, userId).  portal.revokedSince records, for          *)
(* observation only, the (paper, user) pairs whose editor access was      *)
(* revoked and not granted again since.                                    *)

ListEmails ==
    (1 :> "ann@uni.edu") @@ (2 :> "bea@uni.edu") @@ (3 :> "rev@uni.edu") @@ (4 :> "bob@uni.edu")

(* User.findOne({ email })                                                 *)
userByEmail(email) ==
    IF \E u \in DOMAIN ListEmails : ListEmails[u] = email
    THEN CHOOSE u \in DOMAIN ListEmails : ListEmails[u] = email
    ELSE 0

(* PaperAccess.findOne({ paperId, userId })                                *)
accessOf(paperId, userId) == {a \in portal.access : a.paperId = paperId /\ a.userId = userId}

accessAnswer(op, userId, paperId, target, status, error) ==
    [op |-> op, as |-> userId, paperId |-> paperId, target |-> target,
     status |-> status, error |-> error]

grantEditorAccess(userId, paperId, editorEmail) ==
    LET editor   == userByEmail(toLowerCase(editorEmail))
        existing == accessOf(paperId, editor)
        granted  == [paperId |-> paperId, userId |-> editor, accessLevel |-> "editor",
                     status |-> "ACTIVE"]
        answer(status, error) ==
            accessAnswer("grant-editor", userId, paperId, editor, status, error)
        quiet(status, error) == resp' = answer(status, error) /\ UNCHANGED portal
    IN  /\ ServerIdle
        /\ IF editorEmail = "" THEN quiet(400, "Editor email is required")
           ELSE IF ~Has(portal.papers, paperId) THEN quiet(404, "Paper not found")
           ELSE IF portal.papers[paperId].authorId # userId
           THEN quiet(403, "Only the paper author can grant editor access")
           ELSE IF editor = 0 THEN quiet(404, "Editor not found")
           ELSE IF editor = userId THEN quiet(400, "You cannot grant access to yourself")
           ELSE IF \E a \in existing : a.status = "ACTIVE"
           THEN quiet(409, "This editor already has access to this paper")
           ELSE /\ resp' = answer(201, "")
                /\ portal' = [portal EXCEPT
                       !.access = (@ \ existing) \cup {granted},
                       !.revokedSince = @ \ {<<paperId, editor>>}]

revokeEditorAccess(userId, paperId, editorId) ==
    LET found == {a \in accessOf(paperId, editorId) : a.accessLevel = "editor"}
        answer(status, error) ==
            accessAnswer("revoke-editor", userId, paperId, editorId, status, error)
        quiet(status, error) == resp' = answer(status, error) /\ UNCHANGED portal
    IN  /\ ServerIdle
        /\ IF editorId = 0 THEN quiet(400, "Editor ID is required")
           ELSE IF ~Has(portal.papers, paperId) THEN quiet(404, "Paper not found")
           ELSE IF portal.papers[paperId].authorId # userId
           THEN quiet(403, "Only the paper author can revoke editor access")
           ELSE IF found = {} THEN quiet(404, "Editor access not found")
           ELSE /\ resp' = answer(200, "")
                /\ portal' = [portal EXCEPT
                       !.access = (@ \ found) \cup {[a EXCEPT !.status = "REVOKED"] : a \in found},
                       !.revokedSince = @ \cup {<<paperId, editorId>>}]

(* Records created for newly assigned reviewers.                           *)
reviewerAccess(paperId, assignedReviewers) ==
    {[paperId |-> paperId, userId |-> r, accessLevel |-> "reviewer", status |-> "ACTIVE"] :
        r \in {u \in assignedReviewers : accessOf(paperId, u) = {}}}

updatePaperStatus(userId, paperId, newStatus, assignedReviewers) ==
    LET answer(status, error) ==
            accessAnswer("update-status", userId, paperId, 0, status, error)
    IN  /\ ServerIdle
        /\ IF newStatus \notin PaperStatuses
           THEN resp' = answer(400, "Invalid status") /\ UNCHANGED portal
           ELSE IF ~Has(portal.papers, paperId)
           THEN resp' = answer(404, "Paper not found") /\ UNCHANGED portal
           ELSE /\ resp' = answer(200, "")
                /\ portal' = [portal EXCEPT
                       !.papers[paperId].status = newStatus,
                       !.papers[paperId].assignedReviewers = assignedReviewers,
                       !.access = @ \cup reviewerAccess(paperId, assignedReviewers)]

paperAccessGrantedAnyStatus(userId, role, paperId) ==
    CASE role = "Editor" -> TRUE
      [] role = "Author" ->
            \/ portal.papers[paperId].authorId = userId
            \/ \E a \in accessOf(paperId, userId) : a.accessLevel = "editor"
      [] role = "Reviewer" -> userId \in portal.papers[paperId].assignedReviewers
      [] OTHER -> FALSE

paperAccessGranted(userId, role, paperId) ==
    CASE role = "Editor" -> TRUE
      [] role = "Author" ->
            \/ portal.papers[paperId].authorId = userId
            \/ \E a \in accessOf(paperId, userId) :
                  a.accessLevel = "editor" /\ a.status = "ACTIVE"
      [] role = "Reviewer" -> userId \in portal.papers[paperId].assignedReviewers
      [] OTHER -> FALSE

canAccessPaper(userId, paperId) ==
    LET answer(status, error) ==
            accessAnswer("paper-access", userId, paperId, 0, status, error)
    IN  /\ ServerIdle
        /\ UNCHANGED portal
        /\ IF paperId = "" \/ userId = 0
           THEN resp' = answer(400, "Missing required parameters")
           ELSE IF ~Has(portal.papers, paperId)
           THEN resp' = answer(404, "Paper not found")
           ELSE IF ~paperAccessGranted(userId, ListUsers[userId].role, paperId)
           THEN resp' = answer(403, "Access denied to this paper")
           ELSE resp' = answer(200, "")

InitAccess ==
    /\ disk = EmptyDB
    /\ pending = {}
    /\ session = [s \in Sessions |-> Null]
    /\ privateKeyStore = [s \in Sessions |-> Null]
    /\ now = 0
    /\ nextId = 1
    /\ otpHist = [e \in Emails |-> NoHist]
    /\ resp = [op |-> "none", status |-> 0, error |-> ""]
    /\ portal = [NoPortal EXCEPT
                    !.papers = ("p1" :> submittedPaper(1)),
                    !.access = {ownerAccess("p1", 1)}]

AccessPaperIds == {"p1", "p9"}

AccessGrant ==
    \E userId \in {1, 2}, paperId \in AccessPaperIds,
       editorEmail \in {"ann@uni.edu", "Bea@Uni.edu", "rev@uni.edu", "nobody@uni.edu", ""} :
        grantEditorAccess(userId, paperId, editorEmail)

AccessRevoke ==
    \E userId \in {1, 2}, paperId \in AccessPaperIds, editorId \in {0, 1, 2, 3} :
        revokeEditorAccess(userId, paperId, editorId)

AccessUpdateStatus ==
    \E paperId \in AccessPaperIds, newStatus \in {"UNDER_REVIEW", "PENDING"},
       assignedReviewers \in SUBSET {2, 3} :
        updatePaperStatus(4, paperId, newStatus, assignedReviewers)

AccessCheck ==
    \E userId \in DOMAIN ListUsers, paperId \in AccessPaperIds : canAccessPaper(userId, paperId)

AccessList == \E userId \in DOMAIN ListUsers : listPapers(userId)

NextAccess == AccessGrant \/ AccessRevoke \/ AccessUpdateStatus \/ AccessCheck \/ AccessList

SpecAccess == InitAccess /\ [][NextAccess]_vars

-----------------------------------------------------------------------------
(* makeDecision and updatePaperStatus on one paper.                        *)

MaxStatusClock == 1

StatusMakeDecision ==
    \E decision \in {"ACCEPTED", "REJECTED", "REVISION_REQUESTED"}, lag \in {0, 1} :
        /\ portal.clock + lag <= MaxStatusClock
        /\ makeDecision("p1", decision, [lead |-> 0, body |-> "The methodology is sound", trail |-> 0], lag)

StatusUpdate ==
    \E newStatus \in PaperStatuses \cup {"PENDING"}, assignedReviewers \in SUBSET {3} :
        updatePaperStatus(4, "p1", newStatus, assignedReviewers)

NextStatus == StatusMakeDecision \/ StatusUpdate

SpecStatus == InitPortal /\ [][NextStatus]_vars

-----------------------------------------------------------------------------
(* checkAccess alone, applied to role, object type and action names drawn  *)
(* from the table and from outside it.                                     *)

AclRoles == {"Author", "Collaborator", "Reviewer", "Editor", "constructor", "toString"}

AclObjectTypes == {"Paper", "Review", "FinalDecision", "Logs", "name", "constructor"}

AclActions == {"create", "read", "update", "delete", "Object", "toString"}

AclCheck ==
    /\ \E role \in AclRoles, objectType \in AclObjectTypes, action \in AclActions :
          resp' = [op |-> "checkAccess", role |-> role, objectType |-> objectType,
                   action |-> action,
                   result |-> checkAccess(role, objectType, action),
                   threw |-> checkAccessThrows(role, objectType, action)]
    /\ UNCHANGED <<disk, pending, session, privateKeyStore, now, nextId, otpHist, portal>>

NextAcl == AclCheck

SpecAcl == Init /\ [][NextAcl]_vars

-----------------------------------------------------------------------------
(* Claims about the OTP subsystem (checked under SpecOtp).                 *)

IsVerify == resp.op = "verify-otp" /\ resp.record # Null

(* C5: once verify-otp has answered ok for an email's challenge, every     *)
(* later verify-otp for that email with the same code answers 'otp used'   *)
(* and never ok.                                                           *)
C5_SingleUse ==
    (IsVerify /\ resp.before.ok >= 1 /\ resp.otp = resp.before.code)
        => (resp.status = 400 /\ resp.error = "otp used")

(* C6: a challenge whose persisted record has used = true keeps used =     *)
(* true in every later state (it never becomes active again).              *)
C6_UsedIsTerminal ==
    [][\A e \in Emails :
          (Has(disk.otps, e) /\ disk.otps[e].used /\ Has(disk'.otps, e)
              /\ disk'.otps[e].otp = disk.otps[e].otp
              /\ disk'.otps[e].expires = disk.otps[e].expires)
          => disk'.otps[e].used]_vars

(* C7: after 5 verify-otp calls with a wrong code against one challenge,   *)
(* the next verify-otp call for it fails even with the correct code.       *)
C7_Lockout ==
    (IsVerify /\ resp.before.invalid >= MaxOtpAttempts) => resp.status # 200

(* C8 as stated: the correct code after the expiry answers 'expired' and   *)
(* leaves the challenge unused; before the expiry, on an unused, unlocked   *)
(* challenge, it answers ok.                                               *)
C8_ExpiryAsStated ==
    (IsVerify /\ resp.otp = resp.record.otp) =>
        /\ resp.at > resp.record.expires =>
              (resp.error = "expired" /\ ~disk.otps[resp.email].used)
        /\ (resp.at <= resp.record.expires /\ ~resp.record.used
                /\ attemptsOf(resp.record) < MaxOtpAttempts) => resp.status = 200

(* C8 amended: on a challenge not yet marked used, the correct code after  *)
(* the expiry answers 'expired' and leaves the challenge unused; before    *)
(* (or at) the expiry, on an unused, unlocked challenge, it answers ok.    *)
C8_Expiry ==
    (IsVerify /\ resp.otp = resp.record.otp /\ ~resp.record.used) =>
        /\ resp.at > resp.record.expires =>
              (resp.error = "expired" /\ ~disk.otps[resp.email].used)
        /\ (resp.at <= resp.record.expires
                /\ attemptsOf(resp.record) < MaxOtpAttempts) => resp.status = 200

C8_Witness ==
    /\ IsVerify /\ resp.otp = resp.record.otp /\ ~resp.record.used
    /\ resp.at > resp.record.expires /\ resp.error = "expired"

-----------------------------------------------------------------------------
(* Claims about access to documents (checked under SpecPapers and Spec).   *)

Members(paper) ==
    {paper.owner} \cup {paper.collaborators[i] : i \in DOMAIN paper.collaborators}
                  \cup {paper.reviewers[i] : i \in DOMAIN paper.reviewers}

AnsweredPaperRead ==
    /\ resp.op = "read-paper"
    /\ resp.email # ""
    /\ Has(disk.papers, resp.pid)

(* C1: a GET /api/papers/:id by an authenticated user who is neither the   *)
(* paper's owner nor in its collaborators or reviewers is answered 403     *)
(* 'forbidden' and carries no plaintext.                                   *)
C1_NonMemberForbidden ==
    (AnsweredPaperRead /\ resp.email \notin Members(disk.papers[resp.pid]))
        => (resp.status = 403 /\ resp.error = "forbidden" /\ resp.plain = Null)

C1_Witness ==
    /\ AnsweredPaperRead
    /\ resp.email \notin Members(disk.papers[resp.pid])
    /\ privateKeyStore[resp.sid] # Null
    /\ resp.status = 403

ObjectOp ==
    [op \in {"read-paper", "create-review", "read-review", "create-decision", "read-decision"} |->
        CASE op = "read-paper"      -> <<"Paper", "read">>
          [] op = "create-review"   -> <<"Review", "create">>
          [] op = "read-review"     -> <<"Review", "read">>
          [] op = "create-decision" -> <<"FinalDecision", "create">>
          [] OTHER                  -> <<"FinalDecision", "read">>]

(* C2: every successful paper read, review create, review read, decision   *)
(* create and decision read is made by a user who passes checkAccess for   *)
(* that object type and action and is a listed member of the paper.        *)
C2_CapabilityAndMembership ==
    (resp.op \in DOMAIN ObjectOp /\ resp.status = 200) =>
        /\ checkAccess(resp.role, ObjectOp[resp.op][1], ObjectOp[resp.op][2])
        /\ resp.email \in Members(disk.papers[resp.pid])

KeyHandleLive(s) == privateKeyStore[s] # Null /\ now <= privateKeyStore[s].expiresAt

SealedPlaintext(paper) == paper.versions[Len(paper.versions)].enc.ciphertext

(* C3: every recipient of a paper (owner, collaborators, reviewers) who    *)
(* is logged in with a live key handle gets exactly the submitted          *)
(* plaintext back from GET /api/papers/:id.                                *)
C3_RoundTrip ==
    (AnsweredPaperRead /\ resp.email \in Members(disk.papers[resp.pid])
        /\ session[resp.sid] # Null /\ session[resp.sid].email = resp.email
        /\ KeyHandleLive(resp.sid))
    => /\ resp.status = 200
       /\ bufferFromBase64(resp.plain.fileBase64) = SealedPlaintext(disk.papers[resp.pid])

(* C4: the key set of every stored paper's and review's encryptedKeys      *)
(* equals the recipient set computed when it was sealed.                   *)
C4_KeySetIsRecipientSet ==
    /\ \A pid \in DOMAIN disk.papers :
          DOMAIN disk.papers[pid].encryptedKeys = Members(disk.papers[pid])
    /\ \A rid \in DOMAIN disk.reviews :
          Has(disk.papers, disk.reviews[rid].pid) =>
              DOMAIN disk.reviews[rid].encryptedKeys =
                  {disk.papers[disk.reviews[rid].pid].owner}
                      \cup Range(disk.papers[disk.reviews[rid].pid].collaborators)

(* C9: no session is authenticated (session user set, private key bound)   *)
(* for an email whose signup OTP challenge was never verified.             *)
C9_OtpGatesLogin ==
    \A s \in Sessions :
        (session[s] # Null /\ privateKeyStore[s] # Null) => otpHist[session[s].email].ok >= 1

ScalarLogFields ==
    {"ts", "event", "email", "sent", "attempts", "failedAttempts", "err", "path", "pid",
     "rid", "by", "reason", "object", "verified"}

StoredSecrets ==
    UNION {
        {disk.users[e].rsaPublicKey : e \in DOMAIN disk.users},
        {disk.users[e].rsaPrivateKeyEncrypted : e \in DOMAIN disk.users},
        UNION {{disk.papers[p].versions[i].enc : i \in DOMAIN disk.papers[p].versions}
                  : p \in DOMAIN disk.papers},
        UNION {{disk.papers[p].encryptedKeys[r] : r \in DOMAIN disk.papers[p].encryptedKeys}
                  : p \in DOMAIN disk.papers},
        {disk.papers[p].decision : p \in {q \in DOMAIN disk.papers : disk.papers[q].decision # Null}},
        {disk.reviews[r].enc : r \in DOMAIN disk.reviews},
        UNION {{disk.reviews[r].encryptedKeys[u] : u \in DOMAIN disk.reviews[r].encryptedKeys}
                  : r \in DOMAIN disk.reviews},
        UNION {{disk.logs[i][f] : f \in (DOMAIN disk.logs[i]) \ ScalarLogFields}
                  : i \in DOMAIN disk.logs} }

IsPrivateKey(v) == "kind" \in DOMAIN v /\ v.kind = "rsa-private"

(* C10: the persisted store holds no plaintext private key; each user's    *)
(* private key is stored only sealed under the key derived from that       *)
(* user's password and salt, and the decrypted key is held only in         *)
(* privateKeyStore.                                                        *)
C10_NoPlaintextKeyOnDisk ==
    /\ \A v \in StoredSecrets : ~IsPrivateKey(v)
    /\ \A e \in DOMAIN disk.users :
          LET u == disk.users[e]
          IN  /\ u.rsaPrivateKeyEncrypted.kind = "aes-gcm"
              /\ u.rsaPrivateKeyEncrypted.key = deriveKey(u.passwordHash.of, u.rsaPrivSalt)
              /\ IsPrivateKey(u.rsaPrivateKeyEncrypted.ciphertext)
    /\ \A s \in Sessions :
          /\ session[s] # Null => DOMAIN session[s] = {"email", "role", "id"}
          /\ privateKeyStore[s] # Null => IsPrivateKey(privateKeyStore[s].privateKeyPem)

C10_Witness ==
    /\ resp.op = "login" /\ resp.status = 200 /\ resp.email = Newcomer
    /\ Has(disk.users, Newcomer)
    /\ privateKeyStore[resp.sid] # Null
    /\ privateKeyStore[resp.sid].privateKeyPem = disk.users[Newcomer].rsaPrivateKeyEncrypted.ciphertext

-----------------------------------------------------------------------------
(* Claims about the access-control table (checked under SpecAcl).          *)

InTable(role, objectType, action) ==
    /\ role \in DOMAIN ACL
    /\ objectType \in DOMAIN ACL[role]
    /\ action \in ACL[role][objectType]

(* C19: checkAccess(role, objectType, action) returns true exactly when    *)
(* the action is listed in the table for that role and object type, and    *)
(* returns false (it does not throw) for every triple absent from the      *)
(* table; the call changes no state.                                       *)
C19_FailClosed ==
    resp.op = "checkAccess" =>
        /\ ~resp.threw
        /\ resp.result = InTable(resp.role, resp.objectType, resp.action)
        /\ disk = EmptyDB /\ privateKeyStore = [s \in Sessions |-> Null]

-----------------------------------------------------------------------------
(* Claims about key custody (checked under SpecKeys and SpecKeysFair).     *)

ReLogin == "private key not available; re-login required"

KeyOps == {"read-paper", "read-review", "create-decision"}

(* C11: a handle bound at time t expires at t + KeyTtl; at every time      *)
(* strictly after that, getPrivateKeyForSession returns null for it,       *)
(* whatever happened to the session in between, and the call that found    *)
(* it expired has removed the entry from privateKeyStore.                  *)
C11_ExpiredHandleEvicted ==
    /\ (resp.op = "login" /\ resp.status = 200 /\ privateKeyStore[resp.sid] # Null)
          => privateKeyStore[resp.sid].expiresAt = resp.at + KeyTtl
    /\ \A s \in Sessions :
          (privateKeyStore[s] # Null /\ now > privateKeyStore[s].expiresAt)
              => /\ getPrivateKeyForSession(privateKeyStore, s) = Null
                 /\ storeAfterGet(privateKeyStore, s)[s] = Null
    /\ (resp.op \in KeyOps /\ resp.error = ReLogin) => privateKeyStore[resp.sid] = Null

C11_Witness ==
    /\ resp.op \in KeyOps /\ resp.error = ReLogin
    /\ resp.held /\ ~resp.live
    /\ now > KeyTtl
    /\ privateKeyStore[resp.sid] = Null

AuthorizedMember(r, db) ==
    /\ r.op \in KeyOps /\ r.email # "" /\ Has(db.papers, r.pid)
    /\ CASE r.op = "read-paper" ->
               r.email \in Members(db.papers[r.pid]) /\ checkAccess(r.role, "Paper", "read")
         [] r.op = "read-review" ->
               isOwnerOrCollab(db.papers[r.pid], r.email) /\ checkAccess(r.role, "Review", "read")
         [] OTHER ->
               /\ r.email \in Range(db.papers[r.pid].collaborators)
               /\ checkAccess(r.role, "FinalDecision", "create")

(* C12: a paper read, review read or decision create by an authenticated,  *)
(* authorized member whose session has no live key handle is answered 401  *)
(* 're-login required', carries no plaintext and leaves the store (the     *)
(* paper and its decision included) as it was.                             *)
C12_NoHandleIsAuthFailure ==
    [][(AuthorizedMember(resp', disk) /\ ~resp'.live)
          => /\ resp'.status = 401 /\ resp'.error = ReLogin
             /\ resp'.plain = Null
             /\ disk' = disk]_vars

(* C13: after a logout request by an authenticated session,                *)
(* privateKeyStore has no handle for that session, whether or not one      *)
(* existed and whether or not the session was destroyed; clearing an       *)
(* absent handle changes nothing and clearing twice equals clearing once.  *)
C13_LogoutReleasesHandle ==
    /\ (resp.op = "logout" /\ resp.email # "") => privateKeyStore[resp.sid] = Null
    /\ \A s \in Sessions :
          LET cleared == clearPrivateKeyForSession(privateKeyStore, s)
          IN  /\ cleared[s] = Null
              /\ clearPrivateKeyForSession(cleared, s) = cleared
              /\ privateKeyStore[s] = Null => cleared = privateKeyStore

C13_Witness ==
    /\ resp.op = "logout" /\ resp.email # ""
    /\ resp.status = 500 /\ ~resp.held
    /\ session[resp.sid] # Null
    /\ privateKeyStore[resp.sid] = Null

(* C14: with the sweep timer firing (weak fairness), every handle whose    *)
(* expiry has passed is eventually removed from privateKeyStore, even if   *)
(* its session never logs out and never issues another request.            *)
C14_ExpiredHandleSwept ==
    \A s \in Sessions :
        (privateKeyStore[s] # Null /\ now > privateKeyStore[s].expiresAt)
            ~> (privateKeyStore[s] = Null \/ now <= privateKeyStore[s].expiresAt)

C14_Witness ==
    /\ now > KeyTtl
    /\ session[CastSession[1]] # Null
    /\ privateKeyStore[CastSession[1]] = Null
    /\ \A i \in DOMAIN disk.logs :
          "by" \in DOMAIN disk.logs[i] => disk.logs[i].ts = 0

-----------------------------------------------------------------------------
(* Claims about decisions (checked under SpecDecisions).                   *)

StoredDecisions == {p \in DOMAIN disk.papers : disk.papers[p].decision # Null}

(* C15: the signature_valid flag computed for a stored decision is true    *)
(* only if the paper it is attached to, its text and its timestamp are     *)
(* the ones that were signed: the same record with another timestamp or    *)
(* another text, or attached to another paper, yields signature_valid      *)
(* false.                                                                  *)
C15_AllFieldsAttested ==
    \A p \in StoredDecisions :
        LET dec == disk.papers[p].decision
        IN  (signerPublicKey(disk, dec) # Null /\ signatureValid(disk, dec)) =>
              /\ \A x \in DecisionTexts \ {dec.decisionText} :
                    ~signatureValid(disk, [dec EXCEPT !.decisionText = x])
              /\ \A ts \in (0 .. MaxDecisionTime + 1) \ {dec.ts} :
                    ~signatureValid(disk, [dec EXCEPT !.ts = ts])
              /\ \A q \in DOMAIN disk.papers \ {p} :
                    ~signatureValid([disk EXCEPT !.papers[q].decision = dec],
                                    [disk EXCEPT !.papers[q].decision = dec].papers[q].decision)

(* C16: a decision read by a user whose role may read decisions, for a     *)
(* paper that has a stored decision, is answered 200 with the decision     *)
(* and a boolean signature_valid, never with an error; and a decision      *)
(* read right after it was issued has signature_valid true.                *)
C16_VerificationIsNonFatal ==
    (resp.op = "read-decision" /\ resp.email # "" /\ resp.pid \in StoredDecisions
        /\ checkAccess(resp.role, "FinalDecision", "read"))
    => /\ resp.status = 200
       /\ resp.plain.decision = disk.papers[resp.pid].decision
       /\ resp.plain.signature_valid \in BOOLEAN
       /\ LET n == Len(disk.logs)
          IN  (n >= 2 /\ disk.logs[n - 1].event = "decision_issued"
                  /\ disk.logs[n - 1].pid = resp.pid)
              => resp.plain.signature_valid

(* C18: once a decision is stored for a paper, no later step changes its   *)
(* signer, text, hash, signature or timestamp, and a later decision        *)
(* request for that paper is answered as a conflict.                       *)
C18_DecisionImmutable ==
    [][\A p \in StoredDecisions :
          /\ Has(disk'.papers, p) => disk'.papers[p].decision = disk.papers[p].decision
          /\ (resp'.op = "create-decision" /\ resp'.pid = p /\ resp' # resp)
                => resp'.status = 409]_vars

-----------------------------------------------------------------------------
(* Claims about the audit trail of denials (checked under SpecPapers).     *)

(* The answered request failed a checkAccess call or a membership check.   *)
DeniedRequest ==
    /\ resp.op \in {"create-paper", "read-paper", "create-review", "read-review",
                    "create-decision", "read-decision", "read-logs"}
    /\ resp.email # ""
    /\ LET paper == disk.papers[resp.pid]
       IN  CASE resp.op = "create-paper" -> ~checkAccess(resp.role, "Paper", "create")
             [] resp.op = "read-logs" -> ~checkAccess(resp.role, "FinalDecision", "read")
             [] OTHER ->
                /\ Has(disk.papers, resp.pid)
                /\ CASE resp.op = "read-paper" ->
                            \/ resp.email \notin allowedUsers(paper)
                            \/ ~checkAccess(resp.role, "Paper", "read")
                      [] resp.op = "create-review" ->
                            \/ resp.email \notin SeqToSet(paper.reviewers)
                            \/ ~checkAccess(resp.role, "Review", "create")
                      [] resp.op = "read-review" ->
                            \/ ~isOwnerOrCollab(paper, resp.email)
                            \/ ~checkAccess(resp.role, "Review", "read")
                      [] resp.op = "create-decision" ->
                            \/ resp.email \notin SeqToSet(paper.collaborators)
                            \/ ~checkAccess(resp.role, "FinalDecision", "create")
                      [] resp.op = "read-decision" ->
                            /\ paper.decision # Null
                            /\ ~checkAccess(resp.role, "FinalDecision", "read")

DenialEntry(e, actor) ==
    /\ e.event = "access_denied"
    /\ "by" \in DOMAIN e
    /\ e.by = actor
    /\ DOMAIN e \cap {"pid", "rid", "object"} # {}

(* C20: every request denied by checkAccess or by a membership check is    *)
(* answered 403, and the step that answers it appends an access_denied     *)
(* log entry naming the actor and the resource.                            *)
C20_DenialsLogged ==
    [][(resp' # resp /\ DeniedRequest') =>
          /\ resp'.status = 403
          /\ Len(disk'.logs) = Len(disk.logs) + 1
          /\ DenialEntry(disk'.logs[Len(disk'.logs)], resp'.email)]_vars

-----------------------------------------------------------------------------
(* Claims about src/research-portal (checked under SpecPortal).            *)

-----------------------------------------------------------------------------
(* Claims about the persisted log (checked under SpecOtp).                 *)

IsPrefix(a, b) == Len(a) <= Len(b) /\ SubSeq(b, 1, Len(a)) = a

(* C21: the persisted logs list is append-only: every step keeps the       *)
(* entries written so far, in their order, and at most adds entries after  *)
(* them.                                                                   *)
C21_AppendOnly == [][IsPrefix(disk.logs, disk'.logs)]_vars

-----------------------------------------------------------------------------
(* Claims about rewritten payloads (checked under SpecTamper).             *)

StoredDiffers(paper) ==
    LET enc == paper.versions[Len(paper.versions)].enc
    IN  enc.ciphertext # sealedAt(paper).ciphertext \/ enc.tag # sealedAt(paper).tag

(* C22: a read of a paper whose stored ciphertext or tag differs from the  *)
(* one written at sealing time fails for every reader and returns no       *)
(* decrypted bytes.                                                        *)
C22_TamperDetected ==
    [][(/\ resp'.op = "read-paper"
        /\ disk'.papers = disk.papers
        /\ Has(disk.papers, resp'.pid)
        /\ StoredDiffers(disk.papers[resp'.pid]))
          => (resp'.status # 200 /\ resp'.plain = Null)]_vars

-----------------------------------------------------------------------------
(* Claims about password attempts (checked under SpecLogin).               *)

IsLoginStep == resp'.op = "login" /\ disk' # disk

LockedOut(e) ==
    otpHist[e].lockedAt >= 0 /\ now < otpHist[e].lockedAt + LockoutPeriod

(* C23: once five wrong passwords in a row have been answered for an       *)
(* account, every login attempt for it in the next 15 minutes is answered  *)
(* 'account locked', with whatever password, and changes neither the       *)
(* session nor the key store.                                              *)
C23_LockoutHolds ==
    [][(IsLoginStep /\ LockedOut(resp'.email)) =>
          /\ resp'.status = 423
          /\ session' = session
          /\ privateKeyStore' = privateKeyStore]_vars

(* C24: a login attempt that does not present the password of a           *)
(* registered account gets the same answer whether or not the email is     *)
(* registered: the 401 'invalid' an unregistered email always gets.        *)
C24_FailedLoginsAlike ==
    (resp.op = "login" /\ ~resp.match) => (resp.status = 401 /\ resp.error = "invalid")

-----------------------------------------------------------------------------
(* Claims about reviews (checked under SpecPapers).                        *)

(* C25: the owner of a paper, logged in with a live key handle, gets the   *)
(* decrypted review from GET /api/reviews/:id for a review of that paper.  *)
C25_OwnerReadsReviews ==
    (/\ resp.op = "read-review"
     /\ resp.email # ""
     /\ Has(disk.papers, resp.pid)
     /\ disk.papers[resp.pid].owner = resp.email
     /\ resp.live)
        => (resp.status = 200 /\ resp.plain # Null)

-----------------------------------------------------------------------------
(* Claims about signup (checked under SpecSignup).                         *)

IsSignupStep == resp'.op = "signup" /\ (resp' # resp \/ disk' # disk)

PolicyClasses == {"upper", "lower", "digit", "symbol"}

(* The request the step answered has a missing field, a role outside the   *)
(* three roles, a password under 12 characters or lacking a class, or an   *)
(* email that is registered before the step.                               *)
BadSignupAnswered ==
    \/ resp'.email = "" \/ resp'.password = "" \/ resp'.role = ""
    \/ resp'.role \notin {"Author", "Collaborator", "Reviewer"}
    \/ PasswordShape[resp'.password].len < 12
    \/ ~(PolicyClasses \subseteq PasswordShape[resp'.password].classes)
    \/ Has(disk.users, resp'.email)

(* C26: such a signup is answered with an error, leaves users and otps as  *)
(* they were and generates no key pair.                                    *)
C26_BadSignupRejected ==
    [][(IsSignupStep /\ BadSignupAnswered) =>
          /\ resp'.status = 400
          /\ resp'.error # ""
          /\ disk'.users = disk.users
          /\ disk'.otps = disk.otps
          /\ nextId' = nextId]_vars

C26_Witness ==
    /\ resp.op = "signup"
    /\ resp.status = 400
    /\ resp.error = "weak password"
    /\ PasswordShape[resp.password].len >= 12
    /\ DOMAIN disk.users # {}
    /\ ~Has(disk.users, resp.email)

-----------------------------------------------------------------------------
(* Claims about the portal's registration and login (checked under        *)
(* SpecAuth).                                                              *)

RegisteredAs(username, password) ==
    \E c \in PortalSessions :
        LET reg == portal.sessions[c].pendingRegistration
        IN  /\ reg # Null
            /\ reg.username = toLowerCase(username)
            /\ comparePassword(password, reg.passwordHash)

KnownCredentials(username, password) ==
    /\ findUser(toLowerCase(username)) # 0
    /\ comparePassword(password, portal.users[findUser(toLowerCase(username))].passwordHash)

(* C27: a login that directly follows a successful register, with the     *)
(* registered username and password, is answered 200 and leaves an OTP on *)
(* the account; a login with a username and password that belong to no    *)
(* account is answered 401.                                                *)
C27_LoginAfterRegister ==
    [][/\ (/\ resp.op = "register" /\ resp.status = 200
           /\ resp'.op = "login"
           /\ RegisteredAs(resp'.username, resp'.password))
          => /\ resp'.status = 200
             /\ \E id \in DOMAIN portal'.users :
                    /\ portal'.users[id].username = toLowerCase(resp'.username)
                    /\ portal'.users[id].otpCode # ""
       /\ (/\ resp'.op = "login"
           /\ resp'.username # ""
           /\ ~KnownCredentials(resp'.username, resp'.password))
          => resp'.status = 401]_vars

UserCreated == DOMAIN portal'.users # DOMAIN portal.users

ProtectedRoutes == {"papers", "reviews", "decision"}

(* The verify-otp call just answered in session c presented the current,  *)
(* unexpired OTP of the session's pending registration or of its user.    *)
OtpMatched(c) ==
    LET sess == portal.sessions[c]
        reg  == sess.pendingRegistration
    IN  /\ resp'.op = "verify-otp" /\ resp'.sid = c
        /\ \/ /\ sess.userId = 0 /\ reg # Null
              /\ resp'.otp = reg.otpCode
              /\ portal.clock <= reg.otpExpiry
              /\ portal'.sessions[c].userId = portal.nextUser
              /\ portal'.users[portal.nextUser].username = reg.username
           \/ /\ sess.userId # 0
              /\ portal'.sessions[c].userId = sess.userId
              /\ resp'.otp # ""
              /\ resp'.otp = portal.users[sess.userId].otpCode
              /\ portal.clock <= portal.users[sess.userId].otpExpiry

(* C29: a paper, review or decision handler runs only for a session whose *)
(* userId is set and whose mfaVerified is true; mfaVerified becomes true  *)
(* in a session only by a verify-otp call of that session that matched    *)
(* the current, unexpired OTP of the session's user or pending            *)
(* registration, and stays true only for that user; an accepted login     *)
(* step 1 leaves the session with mfaVerified false.                       *)
C29_MfaGate ==
    [][/\ (resp'.op \in ProtectedRoutes /\ resp'.ran)
          => /\ portal.sessions[resp'.sid].userId # 0
             /\ portal.sessions[resp'.sid].mfaVerified
             /\ resp'.as = portal.sessions[resp'.sid].userId
       /\ \A c \in PortalSessions :
             /\ (~portal.sessions[c].mfaVerified /\ portal'.sessions[c].mfaVerified)
                => OtpMatched(c)
             /\ (portal.sessions[c].mfaVerified /\ portal'.sessions[c].mfaVerified)
                => portal'.sessions[c].userId = portal.sessions[c].userId
             /\ (resp'.op = "login" /\ resp'.sid = c /\ resp'.status = 200)
                => (~portal'.sessions[c].mfaVerified /\ portal'.sessions[c].userId # 0)]_vars

C29_Witness ==
    /\ resp.op \in ProtectedRoutes /\ resp.ran /\ resp.sid = "c2" /\ resp.as = 1
    /\ portal.sessions["c1"].userId = 1
    /\ ~portal.sessions["c1"].mfaVerified

-----------------------------------------------------------------------------
(* Claims about GET /papers (checked under SpecList).                      *)

HoldsEditorAccess(userId, p) ==
    \E a \in portal.access :
        /\ a.paperId = p /\ a.userId = userId
        /\ a.accessLevel = "editor" /\ a.status = "ACTIVE"

AssignedTo(userId, p) ==
    \/ userId \in portal.papers[p].assignedReviewers
    \/ \E a \in portal.access :
          /\ a.paperId = p /\ a.userId = userId
          /\ a.accessLevel = "reviewer" /\ a.status = "ACTIVE"

(* C30: the list answered to an Author holds only papers the author owns  *)
(* or holds ACTIVE editor access to, the list answered to a Reviewer only *)
(* papers assigned to that reviewer, and the list answered to an Editor   *)
(* every paper in the system.                                              *)
C30_ListByRole ==
    resp.op = "list" =>
        /\ resp.role = "Author" =>
              \A p \in resp.papers :
                  portal.papers[p].authorId = resp.as \/ HoldsEditorAccess(resp.as, p)
        /\ resp.role = "Reviewer" => \A p \in resp.papers : AssignedTo(resp.as, p)
        /\ resp.role = "Editor" => resp.papers = DOMAIN portal.papers

-----------------------------------------------------------------------------
(* Claims about PaperAccess records (checked under SpecAccess).            *)

RevokedFor(userId) ==
    {pr[1] : pr \in {x \in portal.revokedSince :
                        /\ x[2] = userId
                        /\ Has(portal.papers, x[1])
                        /\ portal.papers[x[1]].authorId # userId}}

(* C31: once revokeEditorAccess has succeeded for (paper, u) and until a  *)
(* later grantEditorAccess for (paper, u) succeeds, canAccessPaper        *)
(* answers 403 to u, an Author who does not own the paper, and the paper  *)
(* is absent from the list answered to u.                                  *)
C31_RevokedDenied ==
    [][/\ (/\ resp'.op = "paper-access" /\ portal' = portal
           /\ ListUsers[resp'.as].role = "Author"
           /\ resp'.paperId \in RevokedFor(resp'.as))
          => resp'.status = 403
       /\ (/\ resp'.op = "list" /\ portal' = portal
           /\ resp'.role = "Author")
          => resp'.papers \cap RevokedFor(resp'.as) = {}]_vars

C31_Witness ==
    /\ resp.op = "paper-access" /\ resp.status = 403
    /\ resp.as = 2 /\ resp.paperId = "p1"
    /\ <<"p1", 2>> \in portal.revokedSince
    /\ 2 \in portal.papers["p1"].assignedReviewers

-----------------------------------------------------------------------------
(* Claims about the session timeout (checked under SpecTimeout).           *)

LateFor(sess) ==
    sess.lastActivity # 0 /\ portal.clock - sess.lastActivity > SessionTimeout

TimeoutHonoured(c) ==
    IF LateFor(portal.sessions[c])
    THEN /\ resp'.status = 401
         /\ resp'.error = "Session expired. Please login again."
         /\ ~resp'.ran
         /\ portal'.sessions[c] = FreshSession
    ELSE \/ portal'.sessions[c].lastActivity = portal.clock
         \/ portal'.sessions[c] = FreshSession

(* C32: every request (a step that leaves the clock alone) that arrives   *)
(* more than SESSION_TIMEOUT after the last recorded activity of its      *)
(* session is answered 401 'Session expired', leaves the session          *)
(* destroyed and runs no handler; every other request leaves the          *)
(* session's lastActivity at the current time (or ends the session).      *)
C32_SessionTimeout ==
    [][portal'.clock = portal.clock => TimeoutHonoured(resp'.sid)]_vars

-----------------------------------------------------------------------------
(* Claims about concurrent use of one OTP challenge (checked under        *)
(* SpecOtp).                                                               *)

SameChallenge(e) ==
    /\ Has(disk.otps, e) /\ Has(disk'.otps, e)
    /\ disk'.otps[e].otp = disk.otps[e].otp
    /\ disk'.otps[e].expires = disk.otps[e].expires

(* C33: whatever the order of verify-otp requests and deferred callbacks, *)
(* the persisted attempt counter of a challenge never decreases, at most  *)
(* 5 requests are answered 'invalid' for it and at most one is answered   *)
(* ok.                                                                     *)
C33_AttemptsAtomic ==
    [][\A e \in Emails :
          /\ SameChallenge(e) => attemptsOf(disk'.otps[e]) >= attemptsOf(disk.otps[e])
          /\ otpHist'[e].invalid <= MaxOtpAttempts
          /\ otpHist'[e].ok <= 1]_vars

-----------------------------------------------------------------------------
(* Claims about failed reads (checked under SpecReads).                    *)

FailedReadStep ==
    /\ Len(disk'.logs) = Len(disk.logs) + 1
    /\ disk'.logs[Len(disk'.logs)].event \in {"decrypt_failed", "review_decrypt_failed"}

FailedReadBy(email) ==
    \E i \in DOMAIN disk.logs :
        /\ disk.logs[i].event \in {"decrypt_failed", "review_decrypt_failed"}
        /\ disk.logs[i].by = email

(* C34: a read of a paper or a review that fails at decryption is answered *)
(* 500 'decrypt' and adds one log entry; the session, the key handles and  *)
(* every stored user, paper, review and OTP record are left as they were,  *)
(* so a later read sees what it would have seen without the failed one.    *)
C34_FailedReadLeavesState ==
    [][FailedReadStep =>
          /\ resp'.status = 500 /\ resp'.error = "decrypt"
          /\ session' = session
          /\ privateKeyStore' = privateKeyStore
          /\ disk'.users = disk.users
          /\ disk'.papers = disk.papers
          /\ disk'.reviews = disk.reviews
          /\ disk'.otps = disk.otps
          /\ SubSeq(disk'.logs, 1, Len(disk.logs)) = disk.logs]_vars

(* A read answered in the clear for a user one of whose earlier reads      *)
(* failed at decryption, of each kind.                                     *)
C34_Witness ==
    /\ resp.op = "read-review" /\ resp.status = 200 /\ resp.plain # Null
    /\ FailedReadBy(resp.email)
    /\ \E i \in DOMAIN disk.logs : disk.logs[i].event = "review_decrypt_failed"

-----------------------------------------------------------------------------
(* Claims about the key handle of a session (checked under SpecBind).      *)

IsKeyOf(privateKeyPem, email) ==
    /\ Has(disk.users, email)
    /\ rsaDecrypt(privateKeyPem, rsaEncrypt(disk.users[email].rsaPublicKey, generateAESKey(0))) # Failed

HandleOfSessionUser ==
    \A s \in Sessions :
        privateKeyStore[s] # Null =>
            /\ session[s] # Null
            /\ IsKeyOf(privateKeyStore[s].privateKeyPem, session[s].email)

FailedLoginStep ==
    /\ Len(disk'.logs) = Len(disk.logs) + 1
    /\ disk'.logs[Len(disk'.logs)].event \in
           {"login_failed_unknown", "login_locked", "login_failed", "login_priv_decrypt_failed"}

LoggedFailure(event) == \E i \in DOMAIN disk.logs : disk.logs[i].event = event

(* C35: privateKeyStore maps a session id to at most one handle, the handle *)
(* of a session is the private key of the user recorded in that session,   *)
(* and a login answered 401, 423 or 500 changes neither the session's user *)
(* nor its handle.                                                         *)
C35_OneHandlePerSession ==
    /\ [](DOMAIN privateKeyStore = Sessions /\ HandleOfSessionUser)
    /\ [][FailedLoginStep =>
              /\ resp'.status \in {401, 423, 500}
              /\ session' = session
              /\ privateKeyStore' = privateKeyStore]_vars

(* A second account logged in on the session that held the first account's *)
(* handle, after a login that failed at key unlock and one refused for a   *)
(* locked account.                                                         *)
C35_Witness ==
    /\ resp.op = "login" /\ resp.status = 200 /\ resp.sid = BindSession
    /\ session[BindSession].email = Cast[2]
    /\ IsKeyOf(privateKeyStore[BindSession].privateKeyPem, Cast[2])
    /\ LoggedFailure("login_priv_decrypt_failed")
    /\ LoggedFailure("login_failed")

-----------------------------------------------------------------------------
(* Claims about persisted records (checked under Spec).                    *)

KeptIn(field) == \A k \in DOMAIN disk[field] : Has(disk'[field], k)

DecisionKept ==
    \A pid \in DOMAIN disk.papers :
        disk.papers[pid].decision # Null =>
            Has(disk'.papers, pid) /\ disk'.papers[pid].decision # Null

(* C36: a user record, paper, review or decision that is in the persisted  *)
(* store stays in it in every later state, whatever the interleaving of    *)
(* request handlers with the deferred callback of a signup.                *)
C36_NothingLost ==
    [][KeptIn("users") /\ KeptIn("papers") /\ KeptIn("reviews") /\ DecisionKept]_vars

-----------------------------------------------------------------------------
(* Claims about the failed-login counter (checked under SpecLogin).        *)

LoginStep(events, e) ==
    /\ Len(disk'.logs) = Len(disk.logs) + 1
    /\ disk'.logs[Len(disk'.logs)].event \in events
    /\ disk'.logs[Len(disk'.logs)].email = e

CountersOf(db, e) == <<db.users[e].failedLogins, db.users[e].lockUntil>>

CountersLowered(e) ==
    \/ disk'.users[e].failedLogins < disk.users[e].failedLogins
    \/ disk.users[e].lockUntil # 0 /\ disk'.users[e].lockUntil = 0

(* C37: failedLogins goes down, or lockUntil is cleared, only in a login   *)
(* whose password verified; a login refused as locked changes neither; the *)
(* clock alone changes neither; and a wrong password given once the        *)
(* lockout has run out, with the counter still at the limit, sets lockUntil *)
(* to 15 minutes from then.                                                *)
C37_CounterResetOnlyBySuccess ==
    [][\A e \in Emails :
          (Has(disk.users, e) /\ Has(disk'.users, e)) =>
              /\ CountersLowered(e) =>
                     /\ LoginStep({"login_success", "login_priv_decrypt_failed"}, e)
                     /\ resp'.match
              /\ LoginStep({"login_locked"}, e) => CountersOf(disk', e) = CountersOf(disk, e)
              /\ now' # now => CountersOf(disk', e) = CountersOf(disk, e)
              /\ (/\ LoginStep({"login_failed"}, e)
                  /\ disk.users[e].failedLogins >= MaxFailedLogins)
                 => disk'.users[e].lockUntil = now + LockoutPeriod]_vars

-----------------------------------------------------------------------------
(* Claims about who is given a review (checked under SpecPapers).          *)

ReviewGivenStep ==
    /\ resp' # resp \/ disk'.logs # disk.logs
    /\ resp'.op = "read-review"
    /\ resp'.plain # Null

ReviewReader(s, rid) ==
    LET review == disk.reviews[rid]
        paper  == disk.papers[review.pid]
    IN  /\ session[s] # Null
        /\ session[s].role = "Collaborator"
        /\ Has(disk.users, session[s].email)
        /\ disk.users[session[s].email].role = "Collaborator"
        /\ session[s].email \in SeqToSet(paper.collaborators)
        /\ Has(review.encryptedKeys, session[s].email)
        /\ review.encryptedKeys[session[s].email] =
               rsaEncrypt(disk.users[session[s].email].rsaPublicKey, generateAESKey(rid))
        /\ getPrivateKeyForSession(privateKeyStore, s) # Null

-----------------------------------------------------------------------------
(* Claims about a paper and its Decision (checked under SpecStatus).       *)

DecisionsFor(paperId) ==
    {d \in DOMAIN portal.decisions : portal.decisions[d].paperId = paperId}

====
